---- MODULE Spec2Model ----
(***************************************************************************)
(* A model of the voice assistant's task store (Functions/task_manager.py) *)
(* and of its command interpreter and listening loop (main.py).            *)
(*                                                                         *)
(* A store file is modelled by what json.load makes of it: it is missing,  *)
(* it is not parseable ("garbage", an empty file included), it holds a     *)
(* JSON value that is no array ("object" for {}, "number" for a number),   *)
(* or it holds an array of records.  Timestamps are integers read from the *)
(* clock `now`.  Strings that are searched are sequences of characters.    *)
(***************************************************************************)
EXTENDS Integers, Sequences, FiniteSets, TLC

VARIABLES
    todoFile,       \* content of data/todo.json
    reminderFile,   \* content of data/reminders.json
    noteFile,       \* content of data/notes.json
    now,            \* datetime.datetime.now()
    op,             \* the last operation called
    arg,            \* its arguments
    ret,            \* what it returned: [msg, val]
    raised,         \* whether it ended in an exception instead of returning
    nAdds,          \* how many add_todo calls have been made
    timesReturned   \* per reminder id, in how many check_due_reminders results it was

VARIABLES
    command,        \* the argument of the last handle_command
    ran,            \* the branches of handle_command that ran for it
    spoken,         \* what handle_command spoke, in order
    touched,        \* the external and task store functions it called
    heard,          \* the results of the take_user_input calls it made
    outcome,        \* "returned", "caught" (apology) or "SystemExit"
    nCmds           \* how many handle_command calls have been made

VARIABLES
    pc,              \* where each listening_loop thread is ("unborn": not started)
    is_running,      \* main.py 437
    listening_event, \* main.py 438
    exitFrom,        \* where sys.exit() was reached, if it was
    mode,            \* "gui" or "terminal": USE_GUI
    mainPc,          \* where the main thread is
    is_listening,    \* gui.py 184: the GUI's own flag
    startThreads,    \* Start-button threads that have not yet run their target
    announced        \* per reminder id, how many times the user heard it spoken

storeVars == <<todoFile, reminderFile, noteFile, now, op, arg, ret, raised,
               nAdds, timesReturned>>
cmdVars == <<command, ran, spoken, touched, heard, outcome, nCmds>>
VARIABLES
    playing,         \* MusicPlayer.playing
    current_track,   \* MusicPlayer.current_track
    game_state       \* the dict of the number guessing game

loopVars == <<pc, is_running, listening_event, exitFrom, mode, mainPc,
              is_listening, startThreads, announced>>
entVars == <<playing, current_track, game_state>>
vars == <<storeVars, cmdVars, loopVars, entVars>>

----------------------------------------------------------------------------
(* Bounds of the model *)

MaxTodos == 2
MaxReminders == 3
MaxNotes == 2
MaxNow == 1
MaxQueryLen == 2
MaxCommands == 1
MaxThreads == 2
MaxStartThreads == 1
MaxNumber == 3

----------------------------------------------------------------------------
(* File contents *)

Missing == [kind |-> "missing", recs |-> <<>>]
Garbage == [kind |-> "garbage", recs |-> <<>>]
JsonObject == [kind |-> "object", recs |-> <<>>]
JsonNumber == [kind |-> "number", recs |-> <<>>]
JsonArray(recs) == [kind |-> "array", recs |-> recs]

\* completed_date of a todo that has none (the key is absent)
NoDate == -1

NoRet == [msg |-> "none", val |-> <<>>]

\* json.load in get_todos / get_reminders / get_notes: a missing file and a
\* JSONDecodeError give [], every other content gives the parsed value as it is,
\* whether it is a list or not.
Load(file) ==
    IF file.kind \in {"missing", "garbage"} THEN JsonArray(<<>>) ELSE file

get_todos == Load(todoFile)
get_reminders == Load(reminderFile)
get_notes == Load(noteFile)

BadSave(old, recs) == JsonArray(old.recs \o recs)

KeepLastSave(old, recs) ==
    JsonArray(IF recs = <<>> THEN recs ELSE <<recs[Len(recs)]>>)

\* opened without truncation, what a longer earlier content leaves behind the
\* new text makes the file unparsable
OverwriteSave(old, recs) ==
    IF Len(old.recs) > Len(recs) THEN Garbage ELSE JsonArray(recs)

\* save_todos / save_reminders / save_notes: open(.., 'w') truncates, json.dump
\* writes the list.
Save(old, recs) == JsonArray(recs)

\* len(x) raises TypeError on a number; x.append raises AttributeError on a dict
CanAppend(loaded) == loaded.kind = "array"
\* "for r in x" raises TypeError on a number; a dict {} iterates over nothing
CanIterate(loaded) == loaded.kind \in {"array", "object"}

----------------------------------------------------------------------------
(* Todos *)

Tasks == {"t1", "t2"}
Priorities == {"high", "medium", "low"}

BadNewTodo(todos, task, priority) ==
    [id |-> Len(todos), task |-> task, priority |-> priority,
     created |-> now, completed |-> FALSE, completed_date |-> NoDate]

NewTodo(todos, task, priority) ==
    [id |-> Len(todos) + 1, task |-> task, priority |-> priority,
     created |-> now, completed |-> FALSE, completed_date |-> NoDate]

add_todo(task, priority) ==
    LET todos == get_todos IN
    /\ nAdds < MaxTodos
    /\ op' = "add_todo"
    /\ arg' = <<task, priority>>
    /\ nAdds' = nAdds + 1
    /\ IF CanAppend(todos)
       THEN /\ todoFile' = Save(todoFile,
                                Append(todos.recs, NewTodo(todos.recs, task, priority)))
            /\ ret' = [msg |-> "Added task", val |-> <<task>>]
            /\ raised' = FALSE
       ELSE /\ todoFile' = todoFile
            /\ ret' = NoRet
            /\ raised' = TRUE
    /\ UNCHANGED <<reminderFile, noteFile, now, timesReturned>>

\* the index of the first record with the id, 0 when there is none
FirstWithId(recs, task_id) ==
    IF \E i \in 1..Len(recs) : recs[i].id = task_id
    THEN CHOOSE i \in 1..Len(recs) :
            /\ recs[i].id = task_id
            /\ \A j \in 1..(i - 1) : recs[j].id # task_id
    ELSE 0

BadCompleteAt(todos, task_id) ==
    IF Len(todos) = 0 THEN 0
    ELSE IF FirstWithId(todos, task_id) = 0 THEN 1 ELSE FirstWithId(todos, task_id)

LastCompleteAt(todos, task_id) ==
    IF FirstWithId(todos, task_id) = 0 THEN 0
    ELSE CHOOSE i \in 1..Len(todos) :
            /\ todos[i].id = task_id
            /\ \A j \in (i + 1)..Len(todos) : todos[j].id # task_id

\* the record complete_todo's scan stops at
CompleteAt(todos, task_id) == FirstWithId(todos, task_id)

\* a complete_todo that flips the flag of the record it finds
ToggleTodo(task_id) ==
    LET todos == get_todos
        i == CompleteAt(todos.recs, task_id)
    IN
    /\ op' = "complete_todo"
    /\ arg' = <<task_id>>
    /\ IF ~CanIterate(todos)
       THEN /\ todoFile' = todoFile
            /\ ret' = NoRet
            /\ raised' = TRUE
       ELSE IF i # 0
       THEN /\ todoFile' = Save(todoFile,
                    [todos.recs EXCEPT ![i].completed = ~todos.recs[i].completed,
                                       ![i].completed_date = now])
            /\ ret' = [msg |-> "Marked task as completed", val |-> <<task_id>>]
            /\ raised' = FALSE
       ELSE /\ todoFile' = todoFile
            /\ ret' = [msg |-> "Task not found", val |-> <<task_id>>]
            /\ raised' = FALSE
    /\ UNCHANGED <<reminderFile, noteFile, now, nAdds, timesReturned>>

complete_todo(task_id) ==
    LET todos == get_todos
        i == CompleteAt(todos.recs, task_id)
    IN
    /\ op' = "complete_todo"
    /\ arg' = <<task_id>>
    /\ IF ~CanIterate(todos)
       THEN /\ todoFile' = todoFile
            /\ ret' = NoRet
            /\ raised' = TRUE
       ELSE IF i # 0
       THEN /\ todoFile' = Save(todoFile,
                    [todos.recs EXCEPT ![i].completed = TRUE,
                                       ![i].completed_date = now])
            /\ ret' = [msg |-> "Marked task as completed", val |-> <<task_id>>]
            /\ raised' = FALSE
       ELSE /\ todoFile' = todoFile
            /\ ret' = [msg |-> "Task not found", val |-> <<task_id>>]
            /\ raised' = FALSE
    /\ UNCHANGED <<reminderFile, noteFile, now, nAdds, timesReturned>>

\* one line of list_todos' result: id, status mark, task, priority
TodoLine(t) == [id |-> t.id, done |-> t.completed, task |-> t.task,
                priority |-> t.priority]

Listed(t, show_completed) == ~t.completed \/ show_completed

BadActive(todos, show_completed) ==
    SelectSeq(todos, LAMBDA t : t.completed \/ show_completed)

Active(todos, show_completed) ==
    SelectSeq(todos, LAMBDA t : Listed(t, show_completed))

MapSeq(s, F(_)) == [i \in 1..Len(s) |-> F(s[i])]

list_todos(show_completed) ==
    LET todos == get_todos IN
    /\ op' = "list_todos"
    /\ arg' = <<show_completed>>
    /\ IF todos.kind = "number"
       THEN /\ ret' = NoRet
            /\ raised' = TRUE
       ELSE IF todos.recs = <<>>
       THEN /\ ret' = [msg |-> "No tasks found", val |-> <<>>]
            /\ raised' = FALSE
       ELSE IF Active(todos.recs, show_completed) = <<>>
       THEN /\ ret' = [msg |-> "No active tasks found", val |-> <<>>]
            /\ raised' = FALSE
       ELSE /\ ret' = [msg |-> "listing",
                       val |-> MapSeq(Active(todos.recs, show_completed), TodoLine)]
            /\ raised' = FALSE
    /\ UNCHANGED <<todoFile, reminderFile, noteFile, now, nAdds, timesReturned>>

\* the wall clock moves on
Tick ==
    /\ now < MaxNow
    /\ now' = now + 1
    /\ UNCHANGED <<todoFile, reminderFile, noteFile, op, arg, ret, raised,
                   nAdds, timesReturned>>

----------------------------------------------------------------------------
(* Reminders *)

ReminderTexts == {"call"}

\* The remind_time strings, by what the two parsers make of them:
\*   "iso"    '2024-05-01T10:00:00' or '2024-05-01 10:00': fromisoformat parses it
\*   "iso_tz" '2024-05-01T10:00:00+00:00': fromisoformat parses it, with a tzinfo
\*   "loose"  '2024-5-1 9:30': fromisoformat rejects it, strptime parses it
\*   "bad"    'tomorrow': neither parses it
TimeForms == {"iso", "iso_tz", "loose", "bad"}
TimeStrings == [form : TimeForms, t : 0..MaxNow]

\* datetime.fromisoformat
fromisoformat(s) ==
    [ok |-> s.form \in {"iso", "iso_tz"}, t |-> s.t, aware |-> s.form = "iso_tz"]

\* datetime.strptime(s, "%Y-%m-%d %H:%M")
strptime(s) ==
    [ok |-> s.form \in {"iso", "loose"}, t |-> s.t, aware |-> FALSE]

\* a parser that takes every string for a time
BadParseRemindTime(s) == [ok |-> TRUE, t |-> s.t, aware |-> FALSE]

\* the two attempts of add_reminder
ParseRemindTime(s) ==
    IF fromisoformat(s).ok THEN fromisoformat(s) ELSE strptime(s)

NewReminder(reminders, text, dt) ==
    [id |-> Len(reminders) + 1, text |-> text, time |-> dt.t, aware |-> dt.aware,
     created |-> now, notified |-> FALSE]

add_reminder(text, remind_time) ==
    LET dt == ParseRemindTime(remind_time)
        reminders == get_reminders
    IN
    /\ op' = "add_reminder"
    /\ arg' = <<text, remind_time>>
    /\ IF ~dt.ok
       THEN /\ reminderFile' = reminderFile
            /\ ret' = [msg |-> "Invalid date format", val |-> <<>>]
            /\ raised' = FALSE
       ELSE IF CanAppend(reminders)
       THEN /\ Len(reminders.recs) < MaxReminders
            /\ reminderFile' = Save(reminderFile,
                    Append(reminders.recs, NewReminder(reminders.recs, text, dt)))
            /\ ret' = [msg |-> "Reminder set", val |-> <<text>>]
            /\ raised' = FALSE
       ELSE /\ reminderFile' = reminderFile
            /\ ret' = NoRet
            /\ raised' = TRUE
    /\ UNCHANGED <<todoFile, noteFile, now, nAdds, timesReturned>>

\* "remind_time <= now" of a record the loop looks at: comparing an
\* offset-aware datetime with the naive now raises TypeError
CompareRaises(r) == ~r.notified /\ r.aware

BadIsDue(r) == ~r.notified /\ r.time < now

IsDue(r) == ~r.notified /\ r.time <= now

BadNotified(reminders) ==
    [i \in 1..Len(reminders) |->
        IF \E j \in 1..Len(reminders) : IsDue(reminders[j])
        THEN [reminders[i] EXCEPT !.notified = TRUE]
        ELSE reminders[i]]

\* the reminders after the loop of check_due_reminders has run over all of them
Notified(reminders) ==
    [i \in 1..Len(reminders) |->
        IF IsDue(reminders[i]) THEN [reminders[i] EXCEPT !.notified = TRUE]
        ELSE reminders[i]]

\* due_reminders: the records the loop marked, in file order
DueReminders(reminders) ==
    LET marked == {i \in 1..Len(reminders) : IsDue(reminders[i])}
        F[k \in 0..Len(reminders)] ==
            IF k = 0 THEN <<>>
            ELSE IF k \in marked THEN Append(F[k - 1], Notified(reminders)[k])
            ELSE F[k - 1]
    IN F[Len(reminders)]

CountReturned(due) ==
    [id \in DOMAIN timesReturned |->
        IF \E k \in 1..Len(due) : due[k].id = id
        THEN timesReturned[id] + 1 ELSE timesReturned[id]]

BadShouldSave(due) == TRUE

\* "if due_reminders:" guards save_reminders
ShouldSave(due) == due # <<>>

check_due_reminders ==
    LET reminders == get_reminders
        due == DueReminders(reminders.recs)
    IN
    /\ op' = "check_due_reminders"
    /\ arg' = <<>>
    /\ IF \/ ~CanIterate(reminders)
          \/ \E i \in 1..Len(reminders.recs) : CompareRaises(reminders.recs[i])
       THEN /\ reminderFile' = reminderFile
            /\ ret' = NoRet
            /\ raised' = TRUE
            /\ timesReturned' = timesReturned
       ELSE /\ reminderFile' = IF ShouldSave(due)
                               THEN Save(reminderFile, Notified(reminders.recs))
                               ELSE reminderFile
            /\ ret' = [msg |-> "due", val |-> due]
            /\ raised' = FALSE
            /\ timesReturned' = CountReturned(due)
    /\ UNCHANGED <<todoFile, noteFile, now, nAdds>>

----------------------------------------------------------------------------
(* Notes *)

UpperCase == <<"A", "B", "C", "D", "E", "F", "G", "H", "I", "J", "K", "L", "M",
               "N", "O", "P", "Q", "R", "S", "T", "U", "V", "W", "X", "Y", "Z">>
LowerCase == <<"a", "b", "c", "d", "e", "f", "g", "h", "i", "j", "k", "l", "m",
               "n", "o", "p", "q", "r", "s", "t", "u", "v", "w", "x", "y", "z">>

\* the lower-case letter of each upper-case letter
ToLower ==
    [c \in {UpperCase[i] : i \in 1..Len(UpperCase)} |->
        LowerCase[CHOOSE i \in 1..Len(UpperCase) : UpperCase[i] = c]]

UpperLetters == DOMAIN ToLower

LowerChar(c) == IF c \in UpperLetters THEN ToLower[c] ELSE c

\* str.lower
Lower(s) == [i \in 1..Len(s) |-> LowerChar(s[i])]

\* Python's "needle in hay" on strings
Contains(needle, hay) ==
    \E k \in 0..(Len(hay) - Len(needle)) :
        \A i \in 1..Len(needle) : hay[k + i] = needle[i]

NewNote(notes, title, content) ==
    [id |-> Len(notes) + 1, title |-> title, content |-> content,
     created |-> now, updated |-> now]

add_note(title, content) ==
    LET notes == get_notes IN
    /\ op' = "add_note"
    /\ arg' = <<title, content>>
    /\ IF CanAppend(notes)
       THEN /\ Len(notes.recs) < MaxNotes
            /\ noteFile' = Save(noteFile,
                                Append(notes.recs, NewNote(notes.recs, title, content)))
            /\ ret' = [msg |-> "Added note", val |-> <<title>>]
            /\ raised' = FALSE
       ELSE /\ noteFile' = noteFile
            /\ ret' = NoRet
            /\ raised' = TRUE
    /\ UNCHANGED <<todoFile, reminderFile, now, nAdds, timesReturned>>

BadNoteMatches(note, query) ==
    \/ Contains(query, note.title)
    \/ Contains(query, note.content)

\* the filter of find_note; query is already lowered
NoteMatches(note, query) ==
    \/ Contains(query, Lower(note.title))
    \/ Contains(query, Lower(note.content))

find_note(query) ==
    LET notes == get_notes
        q == Lower(query)
    IN
    /\ op' = "find_note"
    /\ arg' = <<query>>
    /\ IF ~CanIterate(notes)
       THEN /\ ret' = NoRet
            /\ raised' = TRUE
       ELSE /\ ret' = [msg |-> "found",
                       val |-> SelectSeq(notes.recs, LAMBDA n : NoteMatches(n, q))]
            /\ raised' = FALSE
    /\ UNCHANGED <<todoFile, reminderFile, noteFile, now, nAdds, timesReturned>>

----------------------------------------------------------------------------
(* Speech capture: take_user_input *)

\* what the recognizer gives for one capture: a text, or an error
\* (UnknownValueError, RequestError, any other Exception)
CaptureError == [err |-> TRUE, text |-> <<>>]
Recognized(text) == [err |-> FALSE, text |-> text]

IsExitWord(text) ==
    \/ Contains(<<"e", "x", "i", "t">>, Lower(text))
    \/ Contains(<<"s", "t", "o", "p">>, Lower(text))

BadIsExitWord(text) == FALSE

\* take_user_input: what it says, what it returns, and whether it reaches
\* sys.exit() instead of returning
take_user_input(c) ==
    IF c.err
    THEN [exit |-> FALSE, query |-> <<>>, said |-> "sorry"]
    ELSE IF IsExitWord(c.text)
    THEN [exit |-> TRUE, query |-> <<>>, said |-> "goodbye"]
    ELSE [exit |-> FALSE, query |-> Lower(c.text), said |-> "opening"]

----------------------------------------------------------------------------
(* The rules of handle_command *)

\* main.py 631-632
R_greet ==
    [name |-> "greet", kind |-> "simple",
     pats |-> {<<"h", "e", "l", "l", "o">>, <<"h", "i">>},
     also |-> {},
     calls |-> <<>>, quiet |-> 0, pre |-> 0]

\* main.py 635-637
R_open_notepad ==
    [name |-> "open_notepad", kind |-> "simple",
     pats |-> {<<"o", "p", "e", "n", " ", "n", "o", "t", "e", "p", "a", "d">>},
     also |-> {},
     calls |-> <<"open_notepad">>, quiet |-> 0, pre |-> 0]

\* main.py 639-641
R_open_discord ==
    [name |-> "open_discord", kind |-> "simple",
     pats |-> {<<"o", "p", "e", "n", " ", "d", "i", "s", "c", "o", "r", "d">>},
     also |-> {},
     calls |-> <<"open_discord">>, quiet |-> 0, pre |-> 0]

\* main.py 643-645
R_open_cmd ==
    [name |-> "open_cmd", kind |-> "simple",
     pats |-> {<<"o", "p", "e", "n", " ", "c", "o", "m", "m", "a", "n", "d", " ", "p", "r", "o", "m", "p", "t">>, <<"o", "p", "e", "n", " ", "c", "m", "d">>},
     also |-> {},
     calls |-> <<"open_cmd">>, quiet |-> 0, pre |-> 0]

\* main.py 647-649
R_open_camera ==
    [name |-> "open_camera", kind |-> "simple",
     pats |-> {<<"o", "p", "e", "n", " ", "c", "a", "m", "e", "r", "a">>},
     also |-> {},
     calls |-> <<"open_camera">>, quiet |-> 0, pre |-> 0]

\* main.py 651-653
R_open_calculator ==
    [name |-> "open_calculator", kind |-> "simple",
     pats |-> {<<"o", "p", "e", "n", " ", "c", "a", "l", "c", "u", "l", "a", "t", "o", "r">>},
     also |-> {},
     calls |-> <<"open_calculator">>, quiet |-> 0, pre |-> 0]

\* main.py 655-658
R_take_screenshot ==
    [name |-> "take_screenshot", kind |-> "simple",
     pats |-> {<<"t", "a", "k", "e", " ", "s", "c", "r", "e", "e", "n", "s", "h", "o", "t">>},
     also |-> {},
     calls |-> <<"take_screenshot">>, quiet |-> 0, pre |-> 0]

\* main.py 660-666
R_system_info ==
    [name |-> "system_info", kind |-> "simple",
     pats |-> {<<"s", "y", "s", "t", "e", "m", " ", "i", "n", "f", "o">>, <<"s", "y", "s", "t", "e", "m", " ", "i", "n", "f", "o", "r", "m", "a", "t", "i", "o", "n">>},
     also |-> {},
     calls |-> <<"get_system_info">>, quiet |-> 0, pre |-> 0]

\* main.py 668-677
R_battery ==
    [name |-> "battery", kind |-> "simple",
     pats |-> {<<"b", "a", "t", "t", "e", "r", "y">>},
     also |-> {},
     calls |-> <<"get_battery_info">>, quiet |-> 1, pre |-> 0]

\* main.py 679-681
R_lock ==
    [name |-> "lock", kind |-> "simple",
     pats |-> {<<"l", "o", "c", "k">>},
     also |-> {<<"c", "o", "m", "p", "u", "t", "e", "r">>, <<"s", "c", "r", "e", "e", "n">>, <<"s", "y", "s", "t", "e", "m">>},
     calls |-> <<"lock_screen">>, quiet |-> 0, pre |-> 0]

\* main.py 683-690
R_shutdown ==
    [name |-> "shutdown", kind |-> "confirm",
     pats |-> {<<"s", "h", "u", "t", "d", "o", "w", "n">>, <<"t", "u", "r", "n", " ", "o", "f", "f">>},
     also |-> {<<"c", "o", "m", "p", "u", "t", "e", "r">>},
     calls |-> <<"shutdown_system">>, quiet |-> 0, pre |-> 0]

\* main.py 692-699
R_restart ==
    [name |-> "restart", kind |-> "confirm",
     pats |-> {<<"r", "e", "s", "t", "a", "r", "t">>, <<"r", "e", "b", "o", "o", "t">>},
     also |-> {<<"c", "o", "m", "p", "u", "t", "e", "r">>},
     calls |-> <<"restart_system">>, quiet |-> 0, pre |-> 0]

\* main.py 701-703
R_cancel_shutdown ==
    [name |-> "cancel_shutdown", kind |-> "simple",
     pats |-> {<<"c", "a", "n", "c", "e", "l", " ", "s", "h", "u", "t", "d", "o", "w", "n">>, <<"c", "a", "n", "c", "e", "l", " ", "r", "e", "s", "t", "a", "r", "t">>},
     also |-> {},
     calls |-> <<"cancel_shutdown">>, quiet |-> 0, pre |-> 0]

\* main.py 706-709
R_ip_address ==
    [name |-> "ip_address", kind |-> "simple",
     pats |-> {<<"i", "p", " ", "a", "d", "d", "r", "e", "s", "s">>},
     also |-> {},
     calls |-> <<"find_my_ip">>, quiet |-> 1, pre |-> 0]

BadR_wikipedia ==
    [name |-> "wikipedia", kind |-> "ask",
     pats |-> {<<"w", "i", "k", "i", "p", "e", "d", "i", "a">>, <<"s", "e", "a", "r", "c", "h">>},
     also |-> {},
     calls |-> <<"search_on_wikipedia">>, quiet |-> 1, pre |-> 0]

\* main.py 711-720
R_wikipedia ==
    [name |-> "wikipedia", kind |-> "ask",
     pats |-> {<<"w", "i", "k", "i", "p", "e", "d", "i", "a">>},
     also |-> {},
     calls |-> <<"search_on_wikipedia">>, quiet |-> 1, pre |-> 0]

\* main.py 722-729
R_youtube ==
    [name |-> "youtube", kind |-> "ask",
     pats |-> {<<"y", "o", "u", "t", "u", "b", "e">>},
     also |-> {},
     calls |-> <<"play_on_youtube">>, quiet |-> 0, pre |-> 0]

\* main.py 731-738
R_google ==
    [name |-> "google", kind |-> "ask",
     pats |-> {<<"s", "e", "a", "r", "c", "h", " ", "o", "n", " ", "g", "o", "o", "g", "l", "e">>, <<"g", "o", "o", "g", "l", "e">>},
     also |-> {},
     calls |-> <<"search_on_google">>, quiet |-> 0, pre |-> 0]

\* main.py 740-749
R_whatsapp ==
    [name |-> "whatsapp", kind |-> "ask",
     pats |-> {<<"s", "e", "n", "d", " ", "w", "h", "a", "t", "s", "a", "p", "p", " ", "m", "e", "s", "s", "a", "g", "e">>, <<"w", "h", "a", "t", "s", "a", "p", "p">>},
     also |-> {},
     calls |-> <<"input", "send_whatsapp_message">>, quiet |-> 2, pre |-> 1]

\* main.py 751-764
R_email ==
    [name |-> "email", kind |-> "email",
     pats |-> {<<"s", "e", "n", "d", " ", "a", "n", " ", "e", "m", "a", "i", "l">>, <<"s", "e", "n", "d", " ", "e", "m", "a", "i", "l">>},
     also |-> {},
     calls |-> <<"input", "send_email">>, quiet |-> 2, pre |-> 1]

\* main.py 766-771
R_joke ==
    [name |-> "joke", kind |-> "simple",
     pats |-> {<<"j", "o", "k", "e">>},
     also |-> {},
     calls |-> <<"get_random_joke">>, quiet |-> 0, pre |-> 0]

\* main.py 773-778
R_advice ==
    [name |-> "advice", kind |-> "simple",
     pats |-> {<<"a", "d", "v", "i", "c", "e">>},
     also |-> {},
     calls |-> <<"get_random_advice">>, quiet |-> 0, pre |-> 0]

\* main.py 780-784
R_movies ==
    [name |-> "movies", kind |-> "simple",
     pats |-> {<<"t", "r", "e", "n", "d", "i", "n", "g", " ", "m", "o", "v", "i", "e", "s">>, <<"m", "o", "v", "i", "e">>},
     also |-> {},
     calls |-> <<"get_trending_movies">>, quiet |-> 1, pre |-> 0]

\* main.py 786-791
R_news ==
    [name |-> "news", kind |-> "simple",
     pats |-> {<<"n", "e", "w", "s">>},
     also |-> {},
     calls |-> <<"get_latest_news">>, quiet |-> 0, pre |-> 0]

\* main.py 793-804
R_weather ==
    [name |-> "weather", kind |-> "simple",
     pats |-> {<<"w", "e", "a", "t", "h", "e", "r">>},
     also |-> {},
     calls |-> <<"find_my_ip", "requests_get", "get_weather_report">>, quiet |-> 2, pre |-> 0]

\* main.py 807-818
R_add_task ==
    [name |-> "add_task", kind |-> "add_task",
     pats |-> {<<"a", "d", "d", " ", "t", "a", "s", "k">>, <<"a", "d", "d", " ", "t", "o", " ", "d", "o">>},
     also |-> {},
     calls |-> <<>>, quiet |-> 0, pre |-> 0]

\* main.py 820-827
R_complete_task ==
    [name |-> "complete_task", kind |-> "complete_task",
     pats |-> {<<"c", "o", "m", "p", "l", "e", "t", "e", " ", "t", "a", "s", "k">>, <<"m", "a", "r", "k", " ", "t", "a", "s", "k", " ", "a", "s", " ", "d", "o", "n", "e">>},
     also |-> {},
     calls |-> <<>>, quiet |-> 0, pre |-> 0]

\* main.py 829-833
R_list_tasks ==
    [name |-> "list_tasks", kind |-> "list_tasks",
     pats |-> {<<"l", "i", "s", "t", " ", "t", "a", "s", "k", "s">>, <<"s", "h", "o", "w", " ", "t", "a", "s", "k", "s">>, <<"s", "h", "o", "w", " ", "t", "o", " ", "d", "o", " ", "l", "i", "s", "t">>},
     also |-> {},
     calls |-> <<>>, quiet |-> 0, pre |-> 0]

\* main.py 835-844
R_set_reminder ==
    [name |-> "set_reminder", kind |-> "set_reminder",
     pats |-> {<<"s", "e", "t", " ", "r", "e", "m", "i", "n", "d", "e", "r">>, <<"r", "e", "m", "i", "n", "d", " ", "m", "e">>},
     also |-> {},
     calls |-> <<"input">>, quiet |-> 0, pre |-> 0]

\* main.py 846-858
R_take_note ==
    [name |-> "take_note", kind |-> "take_note",
     pats |-> {<<"t", "a", "k", "e", " ", "n", "o", "t", "e">>, <<"m", "a", "k", "e", " ", "n", "o", "t", "e">>},
     also |-> {},
     calls |-> <<>>, quiet |-> 0, pre |-> 0]

\* main.py 860-876
R_find_note ==
    [name |-> "find_note", kind |-> "find_note",
     pats |-> {<<"f", "i", "n", "d", " ", "n", "o", "t", "e">>},
     also |-> {},
     calls |-> <<>>, quiet |-> 0, pre |-> 0]

\* main.py 879-894
R_play_music ==
    [name |-> "play_music", kind |-> "play_music",
     pats |-> {<<"p", "l", "a", "y", " ", "m", "u", "s", "i", "c">>, <<"p", "l", "a", "y", " ", "s", "o", "n", "g">>},
     also |-> {},
     calls |-> <<"music_player_play">>, quiet |-> 0, pre |-> 0]

\* main.py 896-898
R_pause_music ==
    [name |-> "pause_music", kind |-> "simple",
     pats |-> {<<"p", "a", "u", "s", "e", " ", "m", "u", "s", "i", "c">>, <<"p", "a", "u", "s", "e", " ", "s", "o", "n", "g">>},
     also |-> {},
     calls |-> <<"music_player_pause">>, quiet |-> 1, pre |-> 0]

\* main.py 900-902
R_resume_music ==
    [name |-> "resume_music", kind |-> "simple",
     pats |-> {<<"r", "e", "s", "u", "m", "e", " ", "m", "u", "s", "i", "c">>, <<"r", "e", "s", "u", "m", "e", " ", "s", "o", "n", "g">>},
     also |-> {},
     calls |-> <<"music_player_resume">>, quiet |-> 1, pre |-> 0]

\* main.py 904-906
R_stop_music ==
    [name |-> "stop_music", kind |-> "simple",
     pats |-> {<<"s", "t", "o", "p", " ", "m", "u", "s", "i", "c">>, <<"s", "t", "o", "p", " ", "s", "o", "n", "g">>},
     also |-> {},
     calls |-> <<"music_player_stop">>, quiet |-> 1, pre |-> 0]

\* main.py 908-911
R_quote ==
    [name |-> "quote", kind |-> "simple",
     pats |-> {<<"q", "u", "o", "t", "e">>, <<"i", "n", "s", "p", "i", "r", "a", "t", "i", "o", "n">>},
     also |-> {},
     calls |-> <<"get_random_quote">>, quiet |-> 1, pre |-> 0]

\* main.py 913-919
R_riddle ==
    [name |-> "riddle", kind |-> "simple",
     pats |-> {<<"r", "i", "d", "d", "l", "e">>},
     also |-> {},
     calls |-> <<"get_riddle", "time_sleep">>, quiet |-> 1, pre |-> 0]

\* main.py 921-926
R_tell_joke ==
    [name |-> "tell_joke", kind |-> "simple",
     pats |-> {<<"t", "e", "l", "l", " ", "m", "e", " ", "a", " ", "j", "o", "k", "e">>},
     also |-> {},
     calls |-> <<"tell_joke", "time_sleep">>, quiet |-> 1, pre |-> 0]

\* main.py 928-938
R_rock_paper_scissors ==
    [name |-> "rock_paper_scissors", kind |-> "ask",
     pats |-> {<<"r", "o", "c", "k", " ", "p", "a", "p", "e", "r", " ", "s", "c", "i", "s", "s", "o", "r", "s">>},
     also |-> {},
     calls |-> <<"play_rock_paper_scissors">>, quiet |-> 1, pre |-> 0]

\* main.py 941-968
R_translate ==
    [name |-> "translate", kind |-> "translate",
     pats |-> {<<"t", "r", "a", "n", "s", "l", "a", "t", "e">>},
     also |-> {},
     calls |-> <<"translate_text", "get_language_name">>, quiet |-> 0, pre |-> 0]

\* main.py 970-985
R_what_language ==
    [name |-> "what_language", kind |-> "what_language",
     pats |-> {<<"w", "h", "a", "t", " ", "l", "a", "n", "g", "u", "a", "g", "e", " ", "i", "s">>},
     also |-> {},
     calls |-> <<"detect_language", "get_language_name">>, quiet |-> 0, pre |-> 0]

\* main.py 987-1000
R_speak_this ==
    [name |-> "speak_this", kind |-> "speak_this",
     pats |-> {<<"s", "p", "e", "a", "k", " ", "t", "h", "i", "s">>, <<"s", "a", "y", " ", "t", "h", "i", "s">>},
     also |-> {},
     calls |-> <<"text_to_speech">>, quiet |-> 0, pre |-> 0]

\* main.py 1002-1004
R_time ==
    [name |-> "time", kind |-> "simple",
     pats |-> {<<"t", "i", "m", "e">>},
     also |-> {},
     calls |-> <<>>, quiet |-> 0, pre |-> 0]

\* main.py 1006-1008
R_date ==
    [name |-> "date", kind |-> "simple",
     pats |-> {<<"d", "a", "t", "e">>},
     also |-> {},
     calls |-> <<>>, quiet |-> 0, pre |-> 0]

\* main.py 1010-1011
R_thanks ==
    [name |-> "thanks", kind |-> "simple",
     pats |-> {<<"t", "h", "a", "n", "k", " ", "y", "o", "u">>, <<"t", "h", "a", "n", "k", "s">>},
     also |-> {},
     calls |-> <<>>, quiet |-> 0, pre |-> 0]

\* main.py 1013-1018
R_who_are_you ==
    [name |-> "who_are_you", kind |-> "simple",
     pats |-> {<<"w", "h", "o", " ", "a", "r", "e", " ", "y", "o", "u">>, <<"w", "h", "a", "t", " ", "c", "a", "n", " ", "y", "o", "u", " ", "d", "o">>},
     also |-> {},
     calls |-> <<>>, quiet |-> 0, pre |-> 0]

\* the rules of handle_command, in source order
Rules ==
    <<R_greet, R_open_notepad, R_open_discord, R_open_cmd, R_open_camera,
      R_open_calculator, R_take_screenshot, R_system_info, R_battery,
      R_lock, R_shutdown, R_restart, R_cancel_shutdown, R_ip_address,
      R_wikipedia, R_youtube, R_google, R_whatsapp, R_email, R_joke,
      R_advice, R_movies, R_news, R_weather, R_add_task, R_complete_task,
      R_list_tasks, R_set_reminder, R_take_note, R_find_note, R_play_music,
      R_pause_music, R_resume_music, R_stop_music, R_quote, R_riddle,
      R_tell_joke, R_rock_paper_scissors, R_translate, R_what_language,
      R_speak_this, R_time, R_date, R_thanks, R_who_are_you>>

\* the condition of one if / elif
RuleCond(r, q) ==
    /\ \E p \in r.pats : Contains(p, q)
    /\ r.also = {} \/ \E p \in r.also : Contains(p, q)

Fallback == [name |-> "fallback", kind |-> "fallback", pats |-> {}, also |-> {},
             calls |-> <<>>, quiet |-> 0, pre |-> 0]

RECURSIVE ChainFrom(_, _)
\* the if / elif chain from the i-th rule on: the rules whose branch runs
ChainFrom(i, q) ==
    IF i > Len(Rules) THEN <<Fallback>>
    ELSE IF RuleCond(Rules[i], q) THEN <<Rules[i]>>
    ELSE ChainFrom(i + 1, q)

\* the queries handle_command is given in this model
Queries ==
    {
     <<"h", "e", "l", "l", "o">>,
     <<"h", "i">>,
     <<"o", "p", "e", "n", " ", "n", "o", "t", "e", "p", "a", "d">>,
     <<"o", "p", "e", "n", " ", "d", "i", "s", "c", "o", "r", "d">>,
     <<"o", "p", "e", "n", " ", "c", "o", "m", "m", "a", "n", "d", " ", "p", "r", "o", "m", "p", "t">>,
     <<"o", "p", "e", "n", " ", "c", "m", "d">>,
     <<"o", "p", "e", "n", " ", "c", "a", "m", "e", "r", "a">>,
     <<"o", "p", "e", "n", " ", "c", "a", "l", "c", "u", "l", "a", "t", "o", "r">>,
     <<"t", "a", "k", "e", " ", "s", "c", "r", "e", "e", "n", "s", "h", "o", "t">>,
     <<"s", "y", "s", "t", "e", "m", " ", "i", "n", "f", "o">>,
     <<"s", "y", "s", "t", "e", "m", " ", "i", "n", "f", "o", "r", "m", "a", "t", "i", "o", "n">>,
     <<"b", "a", "t", "t", "e", "r", "y">>,
     <<"l", "o", "c", "k">>,
     <<"l", "o", "c", "k", " ", "c", "o", "m", "p", "u", "t", "e", "r">>,
     <<"l", "o", "c", "k", " ", "s", "c", "r", "e", "e", "n">>,
     <<"l", "o", "c", "k", " ", "s", "y", "s", "t", "e", "m">>,
     <<"s", "h", "u", "t", "d", "o", "w", "n">>,
     <<"s", "h", "u", "t", "d", "o", "w", "n", " ", "c", "o", "m", "p", "u", "t", "e", "r">>,
     <<"t", "u", "r", "n", " ", "o", "f", "f">>,
     <<"t", "u", "r", "n", " ", "o", "f", "f", " ", "c", "o", "m", "p", "u", "t", "e", "r">>,
     <<"r", "e", "s", "t", "a", "r", "t">>,
     <<"r", "e", "s", "t", "a", "r", "t", " ", "c", "o", "m", "p", "u", "t", "e", "r">>,
     <<"r", "e", "b", "o", "o", "t">>,
     <<"r", "e", "b", "o", "o", "t", " ", "c", "o", "m", "p", "u", "t", "e", "r">>,
     <<"c", "a", "n", "c", "e", "l", " ", "s", "h", "u", "t", "d", "o", "w", "n">>,
     <<"c", "a", "n", "c", "e", "l", " ", "r", "e", "s", "t", "a", "r", "t">>,
     <<"i", "p", " ", "a", "d", "d", "r", "e", "s", "s">>,
     <<"w", "i", "k", "i", "p", "e", "d", "i", "a">>,
     <<"y", "o", "u", "t", "u", "b", "e">>,
     <<"s", "e", "a", "r", "c", "h", " ", "o", "n", " ", "g", "o", "o", "g", "l", "e">>,
     <<"g", "o", "o", "g", "l", "e">>,
     <<"s", "e", "n", "d", " ", "w", "h", "a", "t", "s", "a", "p", "p", " ", "m", "e", "s", "s", "a", "g", "e">>,
     <<"w", "h", "a", "t", "s", "a", "p", "p">>,
     <<"s", "e", "n", "d", " ", "a", "n", " ", "e", "m", "a", "i", "l">>,
     <<"s", "e", "n", "d", " ", "e", "m", "a", "i", "l">>,
     <<"j", "o", "k", "e">>,
     <<"a", "d", "v", "i", "c", "e">>,
     <<"t", "r", "e", "n", "d", "i", "n", "g", " ", "m", "o", "v", "i", "e", "s">>,
     <<"m", "o", "v", "i", "e">>,
     <<"n", "e", "w", "s">>,
     <<"w", "e", "a", "t", "h", "e", "r">>,
     <<"a", "d", "d", " ", "t", "a", "s", "k">>,
     <<"a", "d", "d", " ", "t", "o", " ", "d", "o">>,
     <<"c", "o", "m", "p", "l", "e", "t", "e", " ", "t", "a", "s", "k">>,
     <<"m", "a", "r", "k", " ", "t", "a", "s", "k", " ", "a", "s", " ", "d", "o", "n", "e">>,
     <<"l", "i", "s", "t", " ", "t", "a", "s", "k", "s">>,
     <<"s", "h", "o", "w", " ", "t", "a", "s", "k", "s">>,
     <<"s", "h", "o", "w", " ", "t", "o", " ", "d", "o", " ", "l", "i", "s", "t">>,
     <<"s", "e", "t", " ", "r", "e", "m", "i", "n", "d", "e", "r">>,
     <<"r", "e", "m", "i", "n", "d", " ", "m", "e">>,
     <<"t", "a", "k", "e", " ", "n", "o", "t", "e">>,
     <<"m", "a", "k", "e", " ", "n", "o", "t", "e">>,
     <<"f", "i", "n", "d", " ", "n", "o", "t", "e">>,
     <<"p", "l", "a", "y", " ", "m", "u", "s", "i", "c">>,
     <<"p", "l", "a", "y", " ", "s", "o", "n", "g">>,
     <<"p", "a", "u", "s", "e", " ", "m", "u", "s", "i", "c">>,
     <<"p", "a", "u", "s", "e", " ", "s", "o", "n", "g">>,
     <<"r", "e", "s", "u", "m", "e", " ", "m", "u", "s", "i", "c">>,
     <<"r", "e", "s", "u", "m", "e", " ", "s", "o", "n", "g">>,
     <<"s", "t", "o", "p", " ", "m", "u", "s", "i", "c">>,
     <<"s", "t", "o", "p", " ", "s", "o", "n", "g">>,
     <<"q", "u", "o", "t", "e">>,
     <<"i", "n", "s", "p", "i", "r", "a", "t", "i", "o", "n">>,
     <<"r", "i", "d", "d", "l", "e">>,
     <<"t", "e", "l", "l", " ", "m", "e", " ", "a", " ", "j", "o", "k", "e">>,
     <<"r", "o", "c", "k", " ", "p", "a", "p", "e", "r", " ", "s", "c", "i", "s", "s", "o", "r", "s">>,
     <<"t", "r", "a", "n", "s", "l", "a", "t", "e">>,
     <<"w", "h", "a", "t", " ", "l", "a", "n", "g", "u", "a", "g", "e", " ", "i", "s">>,
     <<"s", "p", "e", "a", "k", " ", "t", "h", "i", "s">>,
     <<"s", "a", "y", " ", "t", "h", "i", "s">>,
     <<"t", "i", "m", "e">>,
     <<"d", "a", "t", "e">>,
     <<"t", "h", "a", "n", "k", " ", "y", "o", "u">>,
     <<"t", "h", "a", "n", "k", "s">>,
     <<"w", "h", "o", " ", "a", "r", "e", " ", "y", "o", "u">>,
     <<"w", "h", "a", "t", " ", "c", "a", "n", " ", "y", "o", "u", " ", "d", "o">>,
     <<"x", "y", "z">>,
     <<"s", "h", "o", "w", " ", "t", "a", "s", "k", "s", " ", "c", "o", "m", "p", "l", "e", "t", "e", "d">>,
     <<"p", "l", "a", "y", " ", "m", "u", "s", "i", "c", " ", "a", "b", "c">>,
     <<"w", "h", "a", "t", " ", "l", "a", "n", "g", "u", "a", "g", "e", " ", "i", "s", " ", "h", "o", "l", "a">>,
     <<"s", "p", "e", "a", "k", " ", "u", "p">>,
     <<"s", "a", "y", " ", "t", "h", "i", "s", " ", "o", "k">>,
     <<"o", "p", "e", "n", " ", "n", "o", "t", "e", "p", "a", "d", " ", "a", "n", "d", " ", "t", "e", "l", "l", " ", "m", "e", " ", "a", " ", "j", "o", "k", "e">>
    }

\* what the listening loop captures in this model
LoopCaptures ==
    {CaptureError, Recognized(<<"H", "e", "l", "l", "o">>), Recognized(<<"a", "d", "d", " ", "t", "a", "s", "k">>),
     Recognized(<<"s", "e", "t", " ", "r", "e", "m", "i", "n", "d", "e", "r">>), Recognized(<<"w", "e", "a", "t", "h", "e", "r">>), Recognized(<<"S", "t", "o", "p">>)}

KnownQueries == Queries \cup {Lower(c.text) : c \in LoopCaptures}

BranchTable == [q \in KnownQueries |-> ChainFrom(1, q)]

RECURSIVE BadChainFrom(_, _)
BadChainFrom(i, q) ==
    IF i > Len(Rules) THEN <<>>
    ELSE IF RuleCond(Rules[i], q) THEN <<Rules[i]>> \o BadChainFrom(i + 1, q)
    ELSE BadChainFrom(i + 1, q)

BadBranches(q) ==
    IF BadChainFrom(1, q) = <<>> THEN <<Fallback>> ELSE BadChainFrom(1, q)

RECURSIVE LastChainFrom(_, _)
LastChainFrom(i, q) ==
    IF i < 1 THEN <<Fallback>>
    ELSE IF RuleCond(Rules[i], q) THEN <<Rules[i]>>
    ELSE LastChainFrom(i - 1, q)

LastBranches(q) == LastChainFrom(Len(Rules), q)

\* the branches of handle_command that run for a query, in the order they run
\* (worked out once for the queries of KnownQueries)
Branches(q) ==
    IF q \in DOMAIN BranchTable THEN BranchTable[q] ELSE ChainFrom(1, q)

----------------------------------------------------------------------------
(* The handlers.  A handler's run is summed up by what it spoke (tags, in   *)
(* order), the external functions it called, the results of the            *)
(* take_user_input calls it made, how it ended ("done", "raise": an        *)
(* Exception left the branch, "exit": take_user_input reached sys.exit())  *)
(* and the task store call it made, if any.  fail = k says that the k-th   *)
(* external call of the handler raises.                                    *)

NoStore == [call |-> "none", a |-> <<>>, b |-> <<>>]

Run(sp, tc, hd, end) ==
    [spoken |-> sp, touched |-> tc, heard |-> hd, end |-> end, store |-> NoStore]

StoreRun(sp, tc, hd, call, a, b) ==
    [spoken |-> sp, touched |-> tc, heard |-> hd, end |-> "done",
     store |-> [call |-> call, a |-> a, b |-> b]]

\* the first k of the calls
FirstCalls(calls, k) == {calls[i] : i \in 1..k}
AllCalls(calls) == FirstCalls(calls, Len(calls))

Digits == <<"0", "1", "2", "3", "4", "5", "6", "7", "8", "9">>
DigitValue(c) == (CHOOSE i \in 1..Len(Digits) : Digits[i] = c) - 1
IsDigit(c) == \E i \in 1..Len(Digits) : Digits[i] = c

\* int(s) raises ValueError
IntRaises(s) == s = <<>> \/ \E i \in 1..Len(s) : ~IsDigit(s[i])

RECURSIVE IntOf(_)
\* int(s) of a string of digits
IntOf(s) ==
    IF s = <<>> THEN 0
    ELSE 10 * IntOf(SubSeq(s, 1, Len(s) - 1)) + DigitValue(s[Len(s)])

RECURSIVE Replace(_, _)
\* s.replace(p, '')
Replace(s, p) ==
    IF Len(s) < Len(p) \/ p = <<>> THEN s
    ELSE IF SubSeq(s, 1, Len(p)) = p
    THEN Replace(SubSeq(s, Len(p) + 1, Len(s)), p)
    ELSE <<s[1]>> \o Replace(Tail(s), p)

RECURSIVE Strip(_)
\* s.strip()
Strip(s) ==
    IF s = <<>> THEN s
    ELSE IF s[1] = " " THEN Strip(Tail(s))
    ELSE IF s[Len(s)] = " " THEN Strip(SubSeq(s, 1, Len(s) - 1))
    ELSE s

\* a branch that only speaks and calls (open notepad, joke, weather, time, ..)
Simple(r, fail) ==
    IF fail \in 1..Len(r.calls)
    THEN Run((IF fail > r.quiet THEN <<"response">> ELSE <<>>) \o <<"apology">>,
             FirstCalls(r.calls, fail), <<>>, "raise")
    ELSE Run(<<"response">>, AllCalls(r.calls), <<>>, "done")

\* a branch that asks one question and acts on a non-empty answer
\* (wikipedia, youtube, google, whatsapp, rock paper scissors)
AskOne(r, fus, fail) ==
    IF fail \in 1..r.pre
    THEN Run(<<"prompt", "apology">>, FirstCalls(r.calls, fail), <<>>, "raise")
    ELSE
    LET h == take_user_input(fus[1]) IN
    IF h.exit
    THEN Run(<<"prompt", h.said>>, FirstCalls(r.calls, r.pre), <<h>>, "exit")
    ELSE IF h.query = <<>>
    THEN Run(<<"prompt", h.said, "didnt_catch">>, FirstCalls(r.calls, r.pre),
             <<h>>, "done")
    ELSE IF fail \in (r.pre + 1)..Len(r.calls)
    THEN Run(<<"prompt", h.said>>
                \o (IF fail > r.quiet THEN <<"response">> ELSE <<>>)
                \o <<"apology">>,
             FirstCalls(r.calls, fail), <<h>>, "raise")
    ELSE Run(<<"prompt", h.said, "response">>, AllCalls(r.calls), <<h>>, "done")

\* shutdown / restart: main.py 683-699
Confirm(r, fus, fail) ==
    LET h == take_user_input(fus[1]) IN
    IF h.exit THEN Run(<<"prompt", h.said>>, {}, <<h>>, "exit")
    ELSE IF Contains(<<"y", "e", "s">>, h.query) \/ Contains(<<"y", "e", "a", "h">>, h.query)
    THEN IF fail = 1
         THEN Run(<<"prompt", h.said, "response", "apology">>, AllCalls(r.calls),
                  <<h>>, "raise")
         ELSE Run(<<"prompt", h.said, "response">>, AllCalls(r.calls), <<h>>, "done")
    ELSE Run(<<"prompt", h.said, "canceled">>, {}, <<h>>, "done")

\* send email: main.py 751-764
Email(r, fus, fail) ==
    IF fail = 1 THEN Run(<<"prompt", "apology">>, {"input"}, <<>>, "raise")
    ELSE
    LET h1 == take_user_input(fus[1])
        h2 == take_user_input(fus[2])
    IN
    IF h1.exit THEN Run(<<"prompt", "prompt", h1.said>>, {"input"}, <<h1>>, "exit")
    ELSE IF h2.exit
    THEN Run(<<"prompt", "prompt", h1.said, "prompt", h2.said>>, {"input"},
             <<h1, h2>>, "exit")
    ELSE IF h2.query = <<>>
    THEN Run(<<"prompt", "prompt", h1.said, "prompt", h2.said, "didnt_catch">>,
             {"input"}, <<h1, h2>>, "done")
    ELSE IF fail = 2
    THEN Run(<<"prompt", "prompt", h1.said, "prompt", h2.said, "apology">>,
             AllCalls(r.calls), <<h1, h2>>, "raise")
    ELSE Run(<<"prompt", "prompt", h1.said, "prompt", h2.said, "response">>,
             AllCalls(r.calls), <<h1, h2>>, "done")

P_high == <<"h", "i", "g", "h">>
P_medium == <<"m", "e", "d", "i", "u", "m">>
P_low == <<"l", "o", "w">>

BadTaskPriority(answer) == IF answer = <<>> THEN P_medium ELSE Lower(answer)

\* the priority add task stores for the answer to "What priority?"
TaskPriority(answer) ==
    IF answer = <<>> \/ Lower(answer) \notin {P_high, P_medium, P_low}
    THEN P_medium ELSE Lower(answer)

\* add task: main.py 807-818
AddTask(fus) ==
    LET h1 == take_user_input(fus[1])
        h2 == take_user_input(fus[2])
    IN
    IF h1.exit THEN Run(<<"prompt", h1.said>>, {}, <<h1>>, "exit")
    ELSE IF h1.query = <<>>
    THEN Run(<<"prompt", h1.said, "didnt_catch">>, {}, <<h1>>, "done")
    ELSE IF h2.exit
    THEN Run(<<"prompt", h1.said, "prompt", h2.said>>, {}, <<h1, h2>>, "exit")
    ELSE StoreRun(<<"prompt", h1.said, "prompt", h2.said>>, {}, <<h1, h2>>,
                  "add_todo", h1.query, TaskPriority(h2.query))

\* complete task: main.py 820-827
CompleteTask(fus) ==
    LET h == take_user_input(fus[1]) IN
    IF h.exit THEN Run(<<"prompt", h.said>>, {}, <<h>>, "exit")
    ELSE IF IntRaises(h.query)
    THEN Run(<<"prompt", h.said, "need_number">>, {}, <<h>>, "done")
    ELSE StoreRun(<<"prompt", h.said>>, {}, <<h>>,
                  "complete_todo", IntOf(h.query), <<>>)

\* list tasks: main.py 829-833
ListTasks(q) ==
    StoreRun(<<>>, {}, <<>>, "list_todos", Contains(<<"c", "o", "m", "p", "l", "e", "t", "e", "d">>, q), <<>>)

\* set reminder: main.py 835-844
SetReminder(fus, console, fail) ==
    LET h == take_user_input(fus[1]) IN
    IF h.exit THEN Run(<<"prompt", h.said>>, {}, <<h>>, "exit")
    ELSE IF h.query = <<>>
    THEN Run(<<"prompt", h.said, "didnt_catch">>, {}, <<h>>, "done")
    ELSE IF fail = 1
    THEN Run(<<"prompt", h.said, "prompt", "apology">>, {"input"}, <<h>>, "raise")
    ELSE StoreRun(<<"prompt", h.said, "prompt">>, {"input"}, <<h>>,
                  "add_reminder", h.query, console)

\* take note that stores the note also when the content came back empty
BadTakeNote(fus) ==
    LET h1 == take_user_input(fus[1])
        h2 == take_user_input(fus[2])
    IN
    IF h1.exit THEN Run(<<"prompt", h1.said>>, {}, <<h1>>, "exit")
    ELSE IF h1.query = <<>>
    THEN Run(<<"prompt", h1.said, "didnt_catch">>, {}, <<h1>>, "done")
    ELSE IF h2.exit
    THEN Run(<<"prompt", h1.said, "prompt", h2.said>>, {}, <<h1, h2>>, "exit")
    ELSE StoreRun(<<"prompt", h1.said, "prompt", h2.said>>, {}, <<h1, h2>>,
                  "add_note", h1.query, h2.query)

\* take note: main.py 846-858
TakeNote(fus) ==
    LET h1 == take_user_input(fus[1])
        h2 == take_user_input(fus[2])
    IN
    IF h1.exit THEN Run(<<"prompt", h1.said>>, {}, <<h1>>, "exit")
    ELSE IF h1.query = <<>>
    THEN Run(<<"prompt", h1.said, "didnt_catch">>, {}, <<h1>>, "done")
    ELSE IF h2.exit
    THEN Run(<<"prompt", h1.said, "prompt", h2.said>>, {}, <<h1, h2>>, "exit")
    ELSE IF h2.query = <<>>
    THEN Run(<<"prompt", h1.said, "prompt", h2.said, "didnt_catch">>, {},
             <<h1, h2>>, "done")
    ELSE StoreRun(<<"prompt", h1.said, "prompt", h2.said>>, {}, <<h1, h2>>,
                  "add_note", h1.query, h2.query)

\* find note: main.py 860-876
FindNote(fus) ==
    LET h == take_user_input(fus[1]) IN
    IF h.exit THEN Run(<<"prompt", h.said>>, {}, <<h>>, "exit")
    ELSE IF h.query = <<>>
    THEN Run(<<"prompt", h.said, "didnt_catch">>, {}, <<h>>, "done")
    ELSE StoreRun(<<"prompt", h.said>>, {}, <<h>>, "find_note", h.query, <<>>)

P_play_music == <<"p", "l", "a", "y", " ", "m", "u", "s", "i", "c">>
P_play_song == <<"p", "l", "a", "y", " ", "s", "o", "n", "g">>

\* play music: main.py 879-894
PlayMusic(r, q, fus, fail) ==
    LET named == \/ Contains(P_play_music, q) /\ q # P_play_music
                 \/ Contains(P_play_song, q) /\ q # P_play_song
        h == take_user_input(fus[1])
        song == IF Contains(P_play_music, q) /\ q # P_play_music
                THEN Strip(Replace(q, P_play_music))
                ELSE IF Contains(P_play_song, q) /\ q # P_play_song
                THEN Strip(Replace(q, P_play_song))
                ELSE h.query
        sp == IF named THEN <<>> ELSE <<"prompt", h.said>>
        hd == IF named THEN <<>> ELSE <<h>>
    IN
    IF ~named /\ h.exit THEN Run(sp, {}, hd, "exit")
    ELSE IF fail = 1
    THEN Run(sp \o (IF song = <<>> THEN <<"random">> ELSE <<>>) \o <<"apology">>,
             AllCalls(r.calls), hd, "raise")
    ELSE Run(sp \o (IF song = <<>> THEN <<"random">> ELSE <<>>) \o <<"response">>,
             AllCalls(r.calls), hd, "done")

\* translate: main.py 941-968
Translate(r, fus, fail) ==
    LET h1 == take_user_input(fus[1])
        h2 == take_user_input(fus[2])
    IN
    IF h1.exit THEN Run(<<"prompt", h1.said>>, {}, <<h1>>, "exit")
    ELSE IF h1.query = <<>>
    THEN Run(<<"prompt", h1.said, "didnt_catch">>, {}, <<h1>>, "done")
    ELSE IF h2.exit
    THEN Run(<<"prompt", h1.said, "prompt", h2.said>>, {}, <<h1, h2>>, "exit")
    ELSE IF h2.query = <<>>
    THEN Run(<<"prompt", h1.said, "prompt", h2.said, "didnt_catch">>, {},
             <<h1, h2>>, "done")
    ELSE IF fail \in 1..Len(r.calls)
    THEN Run(<<"prompt", h1.said, "prompt", h2.said, "apology">>,
             FirstCalls(r.calls, fail), <<h1, h2>>, "raise")
    ELSE Run(<<"prompt", h1.said, "prompt", h2.said, "response">>,
             AllCalls(r.calls), <<h1, h2>>, "done")

P_what_language_is == <<"w", "h", "a", "t", " ", "l", "a", "n", "g", "u", "a", "g", "e", " ", "i", "s">>

\* what language is: main.py 970-985
WhatLanguage(r, q, fus, fail) ==
    LET inQuery == Strip(Replace(q, P_what_language_is))
        h == take_user_input(fus[1])
        text == IF inQuery # <<>> THEN inQuery ELSE h.query
        sp == IF inQuery # <<>> THEN <<>> ELSE <<"prompt", h.said>>
        hd == IF inQuery # <<>> THEN <<>> ELSE <<h>>
    IN
    IF inQuery = <<>> /\ h.exit THEN Run(sp, {}, hd, "exit")
    ELSE IF text = <<>> THEN Run(sp \o <<"didnt_catch">>, {}, hd, "done")
    ELSE IF fail \in 1..Len(r.calls)
    THEN Run(sp \o <<"apology">>, FirstCalls(r.calls, fail), hd, "raise")
    ELSE Run(sp \o <<"response">>, AllCalls(r.calls), hd, "done")

P_speak_this == <<"s", "p", "e", "a", "k", " ", "t", "h", "i", "s">>
P_say_this == <<"s", "a", "y", " ", "t", "h", "i", "s">>

\* speak this / say this: main.py 987-1000
SpeakThis(r, q, fus, fail) ==
    LET inQuery == IF Contains(P_speak_this, q)
                   THEN Strip(Replace(q, P_speak_this))
                   ELSE Strip(Replace(q, P_say_this))
        h == take_user_input(fus[1])
        text == IF inQuery # <<>> THEN inQuery ELSE h.query
        sp == IF inQuery # <<>> THEN <<>> ELSE <<"prompt", h.said>>
        hd == IF inQuery # <<>> THEN <<>> ELSE <<h>>
    IN
    IF inQuery = <<>> /\ h.exit THEN Run(sp, {}, hd, "exit")
    ELSE IF text = <<>> THEN Run(sp \o <<"didnt_catch">>, {}, hd, "done")
    ELSE IF fail = 1 THEN Run(sp \o <<"apology">>, AllCalls(r.calls), hd, "raise")
    ELSE Run(sp, AllCalls(r.calls), hd, "done")

\* the body of one branch of handle_command
Handler(r, q, fus, console, fail) ==
    CASE r.kind = "simple" -> Simple(r, fail)
      [] r.kind = "ask" -> AskOne(r, fus, fail)
      [] r.kind = "confirm" -> Confirm(r, fus, fail)
      [] r.kind = "email" -> Email(r, fus, fail)
      [] r.kind = "add_task" -> AddTask(fus)
      [] r.kind = "complete_task" -> CompleteTask(fus)
      [] r.kind = "list_tasks" -> ListTasks(q)
      [] r.kind = "set_reminder" -> SetReminder(fus, console, fail)
      [] r.kind = "take_note" -> TakeNote(fus)
      [] r.kind = "find_note" -> FindNote(fus)
      [] r.kind = "play_music" -> PlayMusic(r, q, fus, fail)
      [] r.kind = "translate" -> Translate(r, fus, fail)
      [] r.kind = "what_language" -> WhatLanguage(r, q, fus, fail)
      [] r.kind = "speak_this" -> SpeakThis(r, q, fus, fail)
      [] r.kind = "fallback" -> Run(<<"fallback">>, {}, <<>>, "done")

\* how many take_user_input calls a branch can make
Asks(r) ==
    CASE r.kind \in {"simple", "list_tasks", "fallback"} -> 0
      [] r.kind \in {"ask", "confirm", "complete_task", "set_reminder", "find_note",
                     "play_music", "what_language", "speak_this"} -> 1
      [] r.kind \in {"email", "add_task", "take_note", "translate"} -> 2

----------------------------------------------------------------------------
(* handle_command *)

StoreCalls == {"add_todo", "complete_todo", "list_todos", "add_reminder",
               "add_note", "find_note"}

\* the console line read by input(): only set reminder parses it
ConsoleFor(r) ==
    IF r.kind = "set_reminder" THEN {[form |-> f, t |-> 0] : f \in TimeForms}
    ELSE {[form |-> "bad", t |-> 0]}

\* handle_command(query): the branch chosen by the if / elif chain runs; an
\* Exception leaving it is caught and answered with the apology (main.py
\* 1023-1025); SystemExit is no Exception and leaves handle_command.
handle_command(q, fus, console, fail) ==
    LET rs == Branches(q)
        h == Handler(rs[1], q, fus, console, fail)
        call == h.store.call
    IN
    /\ nCmds < MaxCommands
    /\ nCmds' = nCmds + 1
    /\ command' = q
    /\ ran' = {rs[i].name : i \in 1..Len(rs)}
    /\ heard' = h.heard
    /\ touched' = h.touched \cup (IF call = "none" THEN {} ELSE {call})
    /\ CASE call = "none" -> UNCHANGED storeVars
         [] call = "add_todo" -> add_todo(h.store.a, h.store.b)
         [] call = "complete_todo" -> complete_todo(h.store.a)
         [] call = "list_todos" -> list_todos(h.store.a)
         [] call = "add_reminder" -> add_reminder(h.store.a, h.store.b)
         [] call = "add_note" -> add_note(h.store.a, h.store.b)
         [] call = "find_note" -> find_note(h.store.a)
    /\ spoken' = IF call = "none" THEN h.spoken
                 ELSE IF raised' THEN h.spoken \o <<"apology">>
                 ELSE h.spoken \o <<"result">>
    /\ outcome' = IF h.end = "exit" THEN "SystemExit"
                  ELSE IF h.end = "raise" \/ (call # "none" /\ raised') THEN "caught"
                  ELSE "returned"

----------------------------------------------------------------------------
(* Entertainment: MusicPlayer and the number guessing game *)

\* current_track = None. A track name is never empty: get_all_tracks keeps the
\* file names that end in .mp3, .wav or .ogg, so "if self.current_track" tells
\* None from a name.
NoTrack == <<>>

\* what get_all_tracks finds in the music folder
MusicFolders ==
    {<<>>, <<<<"a", ".", "m", "p", "3">>>>, <<<<"a", ".", "m", "p", "3">>, <<"A", "b", ".", "o", "g", "g">>>>,
     <<<<"b", ".", "w", "a", "v">>, <<"A", "b", ".", "o", "g", "g">>, <<"a", ".", "m", "p", "3">>>>}

\* the track_name given to play: None, a file name, a part of one in another
\* case, a name that matches nothing
TrackNames == {NoTrack, <<"a", ".", "m", "p", "3">>, <<"a", "b">>, <<"B">>, <<"z", "z">>}

\* [t for t in tracks if track_name.lower() in t.lower()]
MatchingTracks(tracks, track_name) ==
    SelectSeq(tracks, LAMBDA t : Contains(Lower(track_name), Lower(t)))

\* the indices random.choice can take
RandomChoices(tracks) == IF tracks = <<>> THEN {0} ELSE 1..Len(tracks)

\* selected_track of play, NoTrack when play returns before choosing one
SelectedTrack(tracks, track_name, pick) ==
    IF tracks = <<>> THEN NoTrack
    ELSE IF track_name # NoTrack
    THEN IF \E i \in 1..Len(tracks) : tracks[i] = track_name
         THEN track_name
         ELSE IF MatchingTracks(tracks, track_name) # <<>>
         THEN MatchingTracks(tracks, track_name)[1]
         ELSE NoTrack
    ELSE tracks[pick]

\* MusicPlayer.play; fails: pygame's load or play raises, which play catches
play(track_name, tracks, pick, fails) ==
    LET selected_track == SelectedTrack(tracks, track_name, pick) IN
    /\ op' = "play"
    /\ arg' = <<track_name, tracks>>
    /\ raised' = FALSE
    /\ IF tracks = <<>>
       THEN /\ ret' = [msg |-> "No music files found in the music folder", val |-> <<>>]
            /\ UNCHANGED <<playing, current_track>>
       ELSE IF selected_track = NoTrack
       THEN /\ ret' = [msg |-> "No track found matching", val |-> track_name]
            /\ UNCHANGED <<playing, current_track>>
       ELSE IF fails
       THEN /\ ret' = [msg |-> "Error playing music", val |-> <<>>]
            /\ UNCHANGED <<playing, current_track>>
       ELSE /\ current_track' = selected_track
            /\ playing' = TRUE
            /\ ret' = [msg |-> "Now playing", val |-> selected_track]
    /\ UNCHANGED <<todoFile, reminderFile, noteFile, now, nAdds, timesReturned,
                   game_state>>

\* MusicPlayer.pause
pause ==
    /\ op' = "pause"
    /\ arg' = <<>>
    /\ raised' = FALSE
    /\ IF playing
       THEN /\ playing' = FALSE
            /\ current_track' = current_track
            /\ ret' = [msg |-> "Music paused", val |-> <<>>]
       ELSE /\ ret' = [msg |-> "No music is currently playing", val |-> <<>>]
            /\ UNCHANGED <<playing, current_track>>
    /\ UNCHANGED <<todoFile, reminderFile, noteFile, now, nAdds, timesReturned,
                   game_state>>

\* MusicPlayer.resume
resume ==
    /\ op' = "resume"
    /\ arg' = <<>>
    /\ raised' = FALSE
    /\ IF current_track # NoTrack /\ ~playing
       THEN /\ playing' = TRUE
            /\ current_track' = current_track
            /\ ret' = [msg |-> "Music resumed", val |-> <<>>]
       ELSE /\ ret' = [msg |-> "No paused music to resume", val |-> <<>>]
            /\ UNCHANGED <<playing, current_track>>
    /\ UNCHANGED <<todoFile, reminderFile, noteFile, now, nAdds, timesReturned,
                   game_state>>

\* a stop that forgets the track and leaves the playing flag as it is
BadStopped == [playing |-> playing, current_track |-> NoTrack]

\* the player after "self.playing = False; self.current_track = None"
Stopped == [playing |-> FALSE, current_track |-> NoTrack]

\* MusicPlayer.stop
stop ==
    /\ op' = "stop"
    /\ arg' = <<>>
    /\ raised' = FALSE
    /\ IF current_track # NoTrack
       THEN /\ playing' = Stopped.playing
            /\ current_track' = Stopped.current_track
            /\ ret' = [msg |-> "Music stopped", val |-> <<>>]
       ELSE /\ ret' = [msg |-> "No music is currently playing", val |-> <<>>]
            /\ UNCHANGED <<playing, current_track>>
    /\ UNCHANGED <<todoFile, reminderFile, noteFile, now, nAdds, timesReturned,
                   game_state>>

\* "max_attempts": 10
max_attempts == 10

\* no game has been started
NoGame ==
    [number |-> 0, attempts |-> 0, max_attempts |-> 0, game_over |-> TRUE,
     message |-> [kind |-> "none", n |-> 0]]

\* the dict play_number_guessing_game returns for the number drawn
NewGame(number) ==
    [number |-> number, attempts |-> 0, max_attempts |-> max_attempts,
     game_over |-> FALSE, message |-> [kind |-> "thinking", n |-> 0]]

\* play_number_guessing_game; number: what random.randint gave
play_number_guessing_game(number) ==
    /\ op' = "play_number_guessing_game"
    /\ arg' = <<>>
    /\ raised' = FALSE
    /\ ret' = [msg |-> "game_state", val |-> <<>>]
    /\ game_state' = NewGame(number)
    /\ UNCHANGED <<todoFile, reminderFile, noteFile, now, nAdds, timesReturned,
                   playing, current_track>>

BadIsOver(gs) == FALSE

\* game_state.get("game_over", True)
IsOver(gs) == gs.game_over

\* the dict after check_number_guess has worked on it (it is changed in place
\* and returned)
Guessed(gs, guess) ==
    LET attempts == gs.attempts + 1 IN
    IF IsOver(gs) THEN gs
    ELSE IF attempts >= gs.max_attempts
    THEN [gs EXCEPT !.attempts = attempts, !.game_over = TRUE,
                    !.message = [kind |-> "Sorry, you've used all your attempts",
                                 n |-> gs.number]]
    ELSE IF guess < gs.number
    THEN [gs EXCEPT !.attempts = attempts,
                    !.message = [kind |-> "Too low", n |-> gs.max_attempts - attempts]]
    ELSE IF guess > gs.number
    THEN [gs EXCEPT !.attempts = attempts,
                    !.message = [kind |-> "Too high", n |-> gs.max_attempts - attempts]]
    ELSE [gs EXCEPT !.attempts = attempts, !.game_over = TRUE,
                    !.message = [kind |-> "Congratulations", n |-> attempts]]

check_number_guess(guess) ==
    /\ op' = "check_number_guess"
    /\ arg' = <<guess>>
    /\ raised' = FALSE
    /\ ret' = [msg |-> "game_state", val |-> <<>>]
    /\ game_state' = Guessed(game_state, guess)
    /\ UNCHANGED <<todoFile, reminderFile, noteFile, now, nAdds, timesReturned,
                   playing, current_track>>

\* MusicPlayer.__init__, and no game started
InitEnt ==
    /\ playing = FALSE
    /\ current_track = NoTrack
    /\ game_state = NoGame

----------------------------------------------------------------------------
(* The threads: main, the listening_loop thread, the GUI's Start threads *)

Threads == 1..MaxThreads

\* the threads running listening_loop
Listening == {t \in Threads : pc[t] \notin {"unborn", "ended", "dead"}}

\* threading.Thread(target=listening_loop, daemon=True).start()
StartListeningThread ==
    IF \E t \in Threads : pc[t] = "unborn"
    THEN LET t == CHOOSE u \in Threads :
                    pc[u] = "unborn" /\ \A v \in Threads : pc[v] = "unborn" => u <= v
         IN pc' = [pc EXCEPT ![t] = "while"]
    ELSE pc' = pc

\* launch_gui: the thread is started with the event clear, then the main thread
\* stays in gui_root.mainloop()
launch_gui ==
    /\ mainPc = "main" /\ mode = "gui"
    /\ StartListeningThread
    /\ mainPc' = "mainloop"
    /\ UNCHANGED <<storeVars, cmdVars, is_running, listening_event, exitFrom, mode,
                   is_listening, startThreads, announced, entVars>>

\* run_terminal_mode: sets the event, starts the thread, then waits in
\* "while is_running: time.sleep(0.1)". Only exit_handler clears is_running,
\* and in this mode only the KeyboardInterrupt handler calls it, so the wait
\* ends in no other way.
run_terminal_mode ==
    /\ mainPc = "main" /\ mode = "terminal"
    /\ listening_event' = TRUE
    /\ StartListeningThread
    /\ mainPc' = "wait"
    /\ UNCHANGED <<storeVars, cmdVars, is_running, exitFrom, mode, is_listening,
                   startThreads, announced, entVars>>

\* while is_running:
LoopWhile(t) ==
    /\ mainPc # "ended"
    /\ pc[t] = "while"
    /\ pc' = [pc EXCEPT ![t] = IF is_running THEN "if" ELSE "ended"]
    /\ UNCHANGED <<storeVars, cmdVars, is_running, listening_event, exitFrom, mode,
                   mainPc, is_listening, startThreads, announced, entVars>>

BadLoopIf(t) ==
    /\ mainPc # "ended"
    /\ pc[t] = "if"
    /\ pc' = [pc EXCEPT ![t] = "input"]
    /\ UNCHANGED <<storeVars, cmdVars, is_running, listening_event, exitFrom, mode,
                   mainPc, is_listening, startThreads, announced, entVars>>

\* if listening_event.is_set():
LoopIf(t) ==
    /\ mainPc # "ended"
    /\ pc[t] = "if"
    /\ pc' = [pc EXCEPT ![t] = IF listening_event THEN "input" ELSE "sleep"]
    /\ UNCHANGED <<storeVars, cmdVars, is_running, listening_event, exitFrom, mode,
                   mainPc, is_listening, startThreads, announced, entVars>>

\* query = take_user_input(); if query: ...
LoopInput(t, c) ==
    LET h == take_user_input(c) IN
    /\ mainPc # "ended"
    /\ pc[t] = "input"
    /\ IF h.exit
       THEN /\ pc' = [pc EXCEPT ![t] = "dead"]
            /\ exitFrom' = "listening_loop"
            /\ command' = command
       ELSE /\ pc' = [pc EXCEPT ![t] = IF h.query # <<>> THEN "handle" ELSE "reminders"]
            /\ exitFrom' = exitFrom
            /\ command' = h.query
    /\ UNCHANGED <<storeVars, ran, spoken, touched, heard, outcome, nCmds,
                   is_running, listening_event, mode, mainPc, is_listening,
                   startThreads, announced, entVars>>

\* handle_command(query)
LoopHandle(t, fus, console, fail) ==
    /\ mainPc # "ended"
    /\ pc[t] = "handle"
    /\ handle_command(command, fus, console, fail)
    /\ pc' = [pc EXCEPT ![t] = IF outcome' = "SystemExit" THEN "dead" ELSE "reminders"]
    /\ exitFrom' = IF outcome' = "SystemExit" THEN "handle_command" ELSE exitFrom
    /\ UNCHANGED <<is_running, listening_event, mode, mainPc, is_listening,
                   startThreads, announced, entVars>>

\* the reminders of due whose "Reminder: ..." announcement is heard, given the
\* set mute of positions at which engine.say / runAndWait raises: speak
\* (main.py 524-538) catches that and returns, so the loop over due goes on
Heard(due, mute) == {due[k].id : k \in (1..Len(due)) \ mute}

\* check_reminders(): main.py 616-625; what check_due_reminders raises is
\* caught and nothing is spoken
check_reminders(t, mute) ==
    /\ mainPc # "ended"
    /\ pc[t] = "reminders"
    /\ check_due_reminders
    /\ announced' = IF raised' THEN announced
                    ELSE [id \in DOMAIN announced |->
                            IF id \in Heard(ret'.val, mute)
                            THEN announced[id] + 1 ELSE announced[id]]
    /\ pc' = [pc EXCEPT ![t] = "sleep"]
    /\ UNCHANGED <<cmdVars, is_running, listening_event, exitFrom, mode, mainPc,
                   is_listening, startThreads, entVars>>

\* time.sleep(0.1)
LoopSleep(t) ==
    /\ mainPc # "ended"
    /\ pc[t] = "sleep"
    /\ pc' = [pc EXCEPT ![t] = "while"]
    /\ UNCHANGED <<storeVars, cmdVars, is_running, listening_event, exitFrom, mode,
                   mainPc, is_listening, startThreads, announced, entVars>>

\* main.py 1043-1047
start_listening_callback == listening_event' = TRUE

\* main.py 1049-1053
stop_listening_callback == listening_event' = FALSE

\* main.py 1055-1064: clears is_running and stops the music that is playing
exit_handler ==
    /\ is_running' = FALSE
    /\ IF playing
       THEN playing' = Stopped.playing /\ current_track' = Stopped.current_track
       ELSE UNCHANGED <<playing, current_track>>

BadStartTarget == "listening_loop"

\* what the thread of the Start button runs: the start_callback given to
\* create_gui (gui.py 647, main.py 1070)
StartTarget == "start_listening_callback"

\* gui.py start_listening: the Start button, which starts a thread for the callback
start_listening ==
    /\ mainPc = "mainloop"
    /\ ~is_listening
    /\ startThreads < MaxStartThreads
    /\ is_listening' = TRUE
    /\ startThreads' = startThreads + 1
    /\ UNCHANGED <<storeVars, cmdVars, pc, is_running, listening_event, exitFrom,
                   mode, mainPc, announced, entVars>>

\* a thread of the Start button runs its target
StartThreadRun ==
    /\ mainPc # "ended"
    /\ startThreads > 0
    /\ startThreads' = startThreads - 1
    /\ IF StartTarget = "listening_loop"
       THEN StartListeningThread /\ listening_event' = listening_event
       ELSE start_listening_callback /\ pc' = pc
    /\ UNCHANGED <<storeVars, cmdVars, is_running, exitFrom, mode, mainPc,
                   is_listening, announced, entVars>>

\* gui.py stop_listening: the Stop button calls the callback in the GUI thread
stop_listening ==
    /\ mainPc = "mainloop"
    /\ is_listening
    /\ is_listening' = FALSE
    /\ stop_listening_callback
    /\ UNCHANGED <<storeVars, cmdVars, pc, is_running, exitFrom, mode, mainPc,
                   startThreads, announced, entVars>>

\* the window's close button: WM_DELETE_WINDOW runs exit_handler, which does not
\* destroy the window, so mainloop goes on
CloseWindow ==
    /\ mainPc = "mainloop"
    /\ exit_handler
    /\ UNCHANGED <<storeVars, cmdVars, pc, listening_event, exitFrom, mode, mainPc,
                   is_listening, startThreads, announced, game_state>>

\* gui.py exit_app, confirmed: root.destroy() and sys.exit() in the main thread
exit_app ==
    /\ mainPc = "mainloop"
    /\ mainPc' = "ended"
    /\ UNCHANGED <<storeVars, cmdVars, pc, is_running, listening_event, exitFrom,
                   mode, is_listening, startThreads, announced, entVars>>

\* Ctrl-C in terminal mode: "except KeyboardInterrupt: exit_handler()", then
\* run_terminal_mode returns
KeyboardInterrupt ==
    /\ mainPc = "wait"
    /\ exit_handler
    /\ mainPc' = "ended"
    /\ UNCHANGED <<storeVars, cmdVars, pc, listening_event, exitFrom, mode,
                   is_listening, startThreads, announced, game_state>>

----------------------------------------------------------------------------
(* Initial states *)

InitOps ==
    /\ op = "none"
    /\ arg = <<>>
    /\ ret = NoRet
    /\ raised = FALSE
    /\ nAdds = 0
    /\ timesReturned = [id \in 1..(MaxReminders + 1) |-> 0]
    /\ now = 0

InitCmd ==
    /\ command = <<>>
    /\ ran = {}
    /\ spoken = <<>>
    /\ touched = {}
    /\ heard = <<>>
    /\ outcome = "none"
    /\ nCmds = 0

\* module level of main.py: is_running = True, listening_event = threading.Event()
InitLoop ==
    /\ pc = [t \in Threads |-> "unborn"]
    /\ is_running = TRUE
    /\ listening_event = FALSE
    /\ exitFrom = "none"
    /\ mode = "gui"
    /\ mainPc = "main"
    /\ is_listening = FALSE
    /\ startThreads = 0
    /\ announced = [id \in 1..(MaxReminders + 1) |-> 0]
    /\ InitEnt

\* a store file before the first add: absent, empty (0 bytes) or "[]"
FreshFiles == {Missing, Garbage, JsonArray(<<>>)}
\* ... or holding some other JSON value
AnyFiles == FreshFiles \cup {JsonObject, JsonNumber}

----------------------------------------------------------------------------
(* The todo store: add_todo, complete_todo and list_todos on a fresh file *)

TaskIds == 0..(MaxTodos + 1)

AddTodo ==
    \E task \in Tasks, priority \in Priorities :
        add_todo(task, priority) /\ UNCHANGED <<cmdVars, loopVars, entVars>>

CompleteTodo ==
    \E task_id \in TaskIds : complete_todo(task_id) /\ UNCHANGED <<cmdVars, loopVars, entVars>>

ListTodos ==
    \E show_completed \in BOOLEAN :
        list_todos(show_completed) /\ UNCHANGED <<cmdVars, loopVars, entVars>>

ClockTick == Tick /\ UNCHANGED <<cmdVars, loopVars, entVars>>

InitTodo ==
    /\ InitOps /\ InitCmd /\ InitLoop
    /\ todoFile \in FreshFiles
    /\ reminderFile = Missing
    /\ noteFile = Missing

NextTodo == AddTodo \/ CompleteTodo \/ ListTodos \/ ClockTick

SpecTodo == InitTodo /\ [][NextTodo]_vars

----------------------------------------------------------------------------
(* The reminder store: add_reminder and check_due_reminders as time passes *)

AddReminder ==
    \E text \in ReminderTexts, remind_time \in TimeStrings :
        add_reminder(text, remind_time) /\ UNCHANGED <<cmdVars, loopVars, entVars>>

CheckDueReminders == check_due_reminders /\ UNCHANGED <<cmdVars, loopVars, entVars>>

InitReminder ==
    /\ InitOps /\ InitCmd /\ InitLoop
    /\ todoFile = Missing
    /\ reminderFile \in FreshFiles
    /\ noteFile = Missing

NextReminder == AddReminder \/ CheckDueReminders \/ ClockTick

SpecReminder == InitReminder /\ [][NextReminder]_vars

----------------------------------------------------------------------------
(* The note store: add_note and find_note *)

NoteTexts == {<<>>, <<"A", "b">>, <<"b", "a">>}

RECURSIVE StringsUpTo(_, _)
\* the strings over an alphabet of at most n characters
StringsUpTo(alphabet, n) ==
    IF n = 0 THEN {<<>>}
    ELSE StringsUpTo(alphabet, n - 1)
         \cup {Append(s, c) : s \in StringsUpTo(alphabet, n - 1), c \in alphabet}

NoteQueries == StringsUpTo({"a", "A", "b"}, MaxQueryLen)

AddNote ==
    \E title \in NoteTexts, content \in NoteTexts :
        add_note(title, content) /\ UNCHANGED <<cmdVars, loopVars, entVars>>

FindNoteCall ==
    \E q \in NoteQueries : find_note(q) /\ UNCHANGED <<cmdVars, loopVars, entVars>>

InitNotes ==
    /\ InitOps /\ InitCmd /\ InitLoop
    /\ todoFile = Missing
    /\ reminderFile = Missing
    /\ noteFile \in FreshFiles

NextNotes == AddNote \/ FindNoteCall

SpecNotes == InitNotes /\ [][NextNotes]_vars

----------------------------------------------------------------------------
(* The three stores together, on any file content, by a single writer *)

StoreAddTodo == add_todo("t1", "medium") /\ UNCHANGED <<cmdVars, loopVars, entVars>>

StoreCompleteTodo ==
    \E task_id \in 1..MaxTodos :
        complete_todo(task_id) /\ UNCHANGED <<cmdVars, loopVars, entVars>>

StoreAddReminder ==
    \E form \in {"iso", "bad"} :
        /\ add_reminder("call", [form |-> form, t |-> 0])
        /\ UNCHANGED <<cmdVars, loopVars, entVars>>

StoreAddNote == add_note(<<"A", "b">>, <<>>) /\ UNCHANGED <<cmdVars, loopVars, entVars>>

InitStore ==
    /\ InitOps /\ InitCmd /\ InitLoop
    /\ todoFile \in AnyFiles
    /\ reminderFile \in AnyFiles
    /\ noteFile \in AnyFiles

NextStore ==
    \/ StoreAddTodo
    \/ StoreCompleteTodo
    \/ StoreAddReminder
    \/ CheckDueReminders
    \/ StoreAddNote

SpecStore == InitStore /\ [][NextStore]_vars

----------------------------------------------------------------------------
(* The todo store on a file written by something else: two records whose ids *)
(* may be equal *)

EditedTodo(id, task, completed) ==
    [id |-> id, task |-> task, priority |-> "medium", created |-> 0,
     completed |-> completed,
     completed_date |-> IF completed THEN 0 ELSE NoDate]

EditedFiles ==
    {JsonArray(<<EditedTodo(a, "t1", ca), EditedTodo(b, "t2", cb)>>) :
        a \in 1..2, b \in 1..2, ca \in BOOLEAN, cb \in BOOLEAN}

EditedAddTodo == add_todo("t1", "low") /\ UNCHANGED <<cmdVars, loopVars, entVars>>

InitEdited ==
    /\ InitOps /\ InitCmd /\ InitLoop
    /\ todoFile \in EditedFiles
    /\ reminderFile = Missing
    /\ noteFile = Missing

NextEdited == EditedAddTodo \/ CompleteTodo \/ ClockTick

SpecEdited == InitEdited /\ [][NextEdited]_vars

----------------------------------------------------------------------------
(* save_* and get_* called directly, on any earlier content of the file *)

RECURSIVE ListsUpTo(_, _)
\* the lists of at most n elements of a set
ListsUpTo(elems, n) ==
    IF n = 0 THEN {<<>>}
    ELSE ListsUpTo(elems, n - 1)
         \cup {Append(l, e) : l \in ListsUpTo(elems, n - 1), e \in elems}

TodoLists ==
    ListsUpTo({EditedTodo(1, "t1", FALSE), EditedTodo(2, "t2", TRUE)}, MaxTodos)

NoteLists ==
    ListsUpTo({[id |-> 1, title |-> t, content |-> <<>>, created |-> 0,
                updated |-> 0] : t \in {<<>>, <<"A", "b">>}}, MaxNotes)

\* arg keeps the file written, the list saved and the content it replaced
save_todos ==
    \E todos \in TodoLists :
        /\ todoFile' = Save(todoFile, todos)
        /\ op' = "save_todos"
        /\ arg' = <<"todo.json", todos, todoFile>>
        /\ ret' = NoRet
        /\ raised' = FALSE
        /\ UNCHANGED <<reminderFile, noteFile, now, nAdds, timesReturned>>
        /\ UNCHANGED <<cmdVars, loopVars, entVars>>

save_notes ==
    \E notes \in NoteLists :
        /\ noteFile' = Save(noteFile, notes)
        /\ op' = "save_notes"
        /\ arg' = <<"notes.json", notes, noteFile>>
        /\ ret' = NoRet
        /\ raised' = FALSE
        /\ UNCHANGED <<todoFile, reminderFile, now, nAdds, timesReturned>>
        /\ UNCHANGED <<cmdVars, loopVars, entVars>>

\* ret is what get_todos() returns: the kind of value and, of a list, its records
LoadTodos ==
    /\ op' = "get_todos"
    /\ ret' = [msg |-> get_todos.kind, val |-> get_todos.recs]
    /\ raised' = FALSE
    /\ UNCHANGED <<todoFile, reminderFile, noteFile, now, arg, nAdds, timesReturned>>
    /\ UNCHANGED <<cmdVars, loopVars, entVars>>

LoadNotes ==
    /\ op' = "get_notes"
    /\ ret' = [msg |-> get_notes.kind, val |-> get_notes.recs]
    /\ raised' = FALSE
    /\ UNCHANGED <<todoFile, reminderFile, noteFile, now, arg, nAdds, timesReturned>>
    /\ UNCHANGED <<cmdVars, loopVars, entVars>>

InitSave ==
    /\ InitOps /\ InitCmd /\ InitLoop
    /\ todoFile \in AnyFiles \cup {JsonArray(l) : l \in TodoLists}
    /\ reminderFile = Missing
    /\ noteFile \in AnyFiles \cup {JsonArray(l) : l \in NoteLists}

NextSave == save_todos \/ save_notes \/ LoadTodos \/ LoadNotes

SpecSave == InitSave /\ [][NextSave]_vars

----------------------------------------------------------------------------
(* handle_command on one query after another *)

Captures ==
    {CaptureError, Recognized(<<"m", "i", "l", "k">>), Recognized(<<"H", "i", "g", "h">>), Recognized(<<"2">>),
     Recognized(<<"y", "e", "s">>), Recognized(<<"s", "t", "o", "p", " ", "i", "t">>)}

Dispatch ==
    \E q \in Queries :
        LET r == Branches(q)[1] IN
        \E fus \in [1..Asks(r) -> Captures],
           console \in ConsoleFor(r),
           fail \in 0..Len(r.calls) :
            handle_command(q, fus, console, fail) /\ UNCHANGED <<loopVars, entVars>>

InitDispatch ==
    /\ InitOps /\ InitCmd /\ InitLoop
    /\ todoFile \in FreshFiles
    /\ reminderFile = Missing
    /\ noteFile = Missing

NextDispatch == Dispatch

SpecDispatch == InitDispatch /\ [][NextDispatch]_vars

----------------------------------------------------------------------------
(* The add task command with every kind of answer *)

AddTaskQueries == {<<"a", "d", "d", " ", "t", "a", "s", "k">>, <<"a", "d", "d", " ", "t", "o", " ", "d", "o">>}

AddTaskCaptures ==
    {CaptureError, Recognized(<<"m", "i", "l", "k">>), Recognized(<<"H", "i", "g", "h">>), Recognized(<<"m", "e", "d", "i", "u", "m">>),
     Recognized(<<"L", "O", "W">>), Recognized(<<"l", "o", "w", " ", "p", "r", "i", "o", "r", "i", "t", "y">>), Recognized(<<"h", "i", "g", "h", "e", "s", "t">>), Recognized(<<"s", "t", "o", "p", " ", "i", "t">>)}

AddTaskCommand ==
    \E q \in AddTaskQueries, fus \in [1..2 -> AddTaskCaptures] :
        handle_command(q, fus, [form |-> "bad", t |-> 0], 0) /\ UNCHANGED <<loopVars, entVars>>

NextAddTask == AddTaskCommand

SpecAddTask == InitDispatch /\ [][NextAddTask]_vars

----------------------------------------------------------------------------
(* The listening thread and the GUI's callbacks *)

LoopFollowUps == {CaptureError, Recognized(<<"m", "i", "l", "k">>), Recognized(<<"s", "t", "o", "p", " ", "i", "t">>)}

LoopConsole == {[form |-> "iso", t |-> 0], [form |-> "bad", t |-> 0]}

ListenInput == \E t \in Threads, c \in LoopCaptures : LoopInput(t, c)

ListenHandle ==
    LET r == Branches(command)[1] IN
    \E t \in Threads,
       fus \in [1..Asks(r) -> LoopFollowUps],
       console \in LoopConsole,
       fail \in 0..Len(r.calls) :
        LoopHandle(t, fus, console, fail)

\* the positions of a due list at which speech output can fail
MutePositions == SUBSET (1..MaxReminders)

CheckReminders == \E t \in Threads, mute \in MutePositions : check_reminders(t, mute)

\* the steps of the listening_loop threads and of the threads the Start button
\* starts
ThreadStep ==
    \/ \E t \in Threads : LoopWhile(t)
    \/ \E t \in Threads : LoopIf(t)
    \/ ListenInput
    \/ ListenHandle
    \/ CheckReminders
    \/ \E t \in Threads : LoopSleep(t)
    \/ StartThreadRun

\* the steps the main thread takes by itself
MainStep == launch_gui \/ run_terminal_mode

\* what the user does
UserStep ==
    \/ start_listening
    \/ stop_listening
    \/ CloseWindow
    \/ exit_app
    \/ KeyboardInterrupt

\* main(): USE_GUI chooses launch_gui or run_terminal_mode
InitListening ==
    /\ InitOps /\ InitCmd
    /\ pc = [t \in Threads |-> "unborn"]
    /\ is_running = TRUE
    /\ listening_event = FALSE
    /\ exitFrom = "none"
    /\ mode \in {"gui", "terminal"}
    /\ mainPc = "main"
    /\ is_listening = FALSE
    /\ startThreads = 0
    /\ announced = [id \in 1..(MaxReminders + 1) |-> 0]
    /\ InitEnt
    /\ todoFile = Missing
    /\ reminderFile = Missing
    /\ noteFile = Missing

NextLoop == ThreadStep \/ MainStep \/ UserStep

SpecLoop == InitListening /\ [][NextLoop]_vars

\* the threads are scheduled and the main thread runs; the user may do nothing
SpecLoopLive ==
    InitListening /\ [][NextLoop]_vars /\ WF_vars(ThreadStep) /\ WF_vars(MainStep)

----------------------------------------------------------------------------
(* The listening loop over a reminder file written by earlier runs *)

\* a record as add_reminder stored it at time 0, not yet notified
StoredReminder(id, aware) ==
    [id |-> id, text |-> "r1", time |-> 0, aware |-> aware, created |-> 0,
     notified |-> FALSE]

\* data/reminders.json when the assistant starts: one due reminder, alone or
\* after a reminder whose time was given with a UTC offset
StoredReminderFiles ==
    {JsonArray(<<StoredReminder(1, FALSE)>>),
     JsonArray(<<StoredReminder(1, TRUE), StoredReminder(2, FALSE)>>)}

InitReminding ==
    /\ InitOps /\ InitCmd
    /\ pc = [t \in Threads |-> "unborn"]
    /\ is_running = TRUE
    /\ listening_event = FALSE
    /\ exitFrom = "none"
    /\ mode \in {"gui", "terminal"}
    /\ mainPc = "main"
    /\ is_listening = FALSE
    /\ startThreads = 0
    /\ announced = [id \in 1..(MaxReminders + 1) |-> 0]
    /\ InitEnt
    /\ todoFile = Missing
    /\ reminderFile \in StoredReminderFiles
    /\ noteFile = Missing

\* the threads are scheduled and the main thread runs; the user may do nothing
SpecRemindLive ==
    InitReminding /\ [][NextLoop]_vars /\ WF_vars(ThreadStep) /\ WF_vars(MainStep)

----------------------------------------------------------------------------
(* Properties of the todo store *)

IdsOf(recs) == {recs[i].id : i \in 1..Len(recs)}

\* C1: starting from an empty or missing todo file, the k-th add_todo stores a
\* record with id = k, so the ids are 1, 2, 3, .. in file order, and
\* list_todos(show_completed=False) lists exactly the todos that are not
\* completed, the one just added among them.
C1_AddThenList ==
    /\ \A i \in 1..Len(todoFile.recs) : todoFile.recs[i].id = i
    /\ op = "add_todo" =>
          /\ ~raised
          /\ todoFile.kind = "array"
          /\ Len(todoFile.recs) = nAdds
          /\ todoFile.recs[nAdds].id = nAdds
          /\ ~todoFile.recs[nAdds].completed
    /\ (op = "list_todos" /\ ~arg[1]) =>
          /\ ~raised
          /\ \A i \in 1..Len(todoFile.recs) :
                ~todoFile.recs[i].completed <=>
                    \E k \in 1..Len(ret.val) :
                        /\ ret.val[k].id = todoFile.recs[i].id
                        /\ ret.val[k].task = todoFile.recs[i].task
          /\ \A k \in 1..Len(ret.val) : ret.val[k].id \in IdsOf(todoFile.recs)

C1_Witness ==
    /\ op = "list_todos" /\ ~arg[1]
    /\ nAdds >= 2
    /\ todoFile.recs[1].completed
    /\ Len(ret.val) >= 1
    /\ ret.val[Len(ret.val)].id = nAdds

\* C3: for a task_id that matches no record's id, complete_todo returns the
\* "Task <id> not found" message, raises nothing and leaves the file as it was.
C3_CompleteUnknownId ==
    [][(/\ op' = "complete_todo"
        /\ now' = now
        /\ arg'[1] \notin IdsOf(get_todos.recs))
       => (/\ ret'.msg = "Task not found"
           /\ ~raised'
           /\ todoFile' = todoFile)]_vars

C3_Witness ==
    /\ op = "complete_todo"
    /\ ret.msg = "Task not found"
    /\ Len(todoFile.recs) >= 2
    /\ arg[1] \notin IdsOf(todoFile.recs)
    /\ \E i \in 1..Len(todoFile.recs) : todoFile.recs[i].completed

----------------------------------------------------------------------------
(* Properties of the three stores *)

UniquePositiveIds(file) ==
    \A i \in 1..Len(file.recs) :
        /\ file.recs[i].id \in Nat \ {0}
        /\ \A j \in 1..Len(file.recs) : file.recs[i].id = file.recs[j].id => i = j

\* C2: in every reachable state of each store file, whatever a single writer
\* has called, no two records of a file have the same id and every id is a
\* positive integer.
C2_IdsUniquePositive ==
    /\ UniquePositiveIds(todoFile)
    /\ UniquePositiveIds(reminderFile)
    /\ UniquePositiveIds(noteFile)

C2_Witness ==
    /\ Len(todoFile.recs) >= 2
    /\ Len(reminderFile.recs) >= 2
    /\ Len(noteFile.recs) >= 2
    /\ todoFile.recs[1].completed
    /\ reminderFile.recs[1].notified

\* C5: a store file that is missing or malformed (not parseable, or no array of
\* records) loads as the empty sequence without an error, so that an add* call
\* on it succeeds: no add_todo, add_reminder or add_note ends in an exception.
C5_AddAfterMalformedFile ==
    op \in {"add_todo", "add_reminder", "add_note"} => ~raised

----------------------------------------------------------------------------
(* Properties of the reminder store *)

\* C4: a (naive) reminder whose time is at or before now is returned by exactly
\* one check_due_reminders call: when a call has been made, every such reminder
\* in the file has been returned once, by this call or an earlier one, and none
\* has been returned twice.
C4_DueReturnedExactlyOnce ==
    [][(op' = "check_due_reminders" /\ now' = now)
       => \A i \in 1..Len(reminderFile'.recs) :
            LET r == reminderFile'.recs[i] IN
            /\ timesReturned'[r.id] <= 1
            /\ (~r.aware /\ r.time <= now') => timesReturned'[r.id] = 1]_vars

----------------------------------------------------------------------------
(* Properties of the note store *)

\* q is a substring of s when case is ignored
ContainsIgnoringCase(q, s) ==
    \E k \in 0..(Len(s) - Len(q)) :
        \A i \in 1..Len(q) : LowerChar(s[k + i]) = LowerChar(q[i])

\* C6: find_note(query) returns exactly the stored notes whose title or content
\* contains query as a substring, case ignored, in file order.
C6_FindNoteExact ==
    op = "find_note" =>
        /\ ~raised
        /\ ret.val = SelectSeq(get_notes.recs,
                LAMBDA n : \/ ContainsIgnoringCase(arg[1], n.title)
                           \/ ContainsIgnoringCase(arg[1], n.content))

C6_Witness ==
    /\ op = "find_note"
    /\ Len(noteFile.recs) = 2
    /\ Len(ret.val) = 1
    /\ ~Contains(arg[1], ret.val[1].title)
    /\ ~Contains(arg[1], ret.val[1].content)
    /\ arg[1] # Lower(arg[1])

----------------------------------------------------------------------------
(* Properties of handle_command *)

Matching(q) == {i \in 1..Len(Rules) : RuleCond(Rules[i], q)}

\* the rule that comes first in source order among those whose condition holds
FirstRule(q) ==
    IF Matching(q) = {} THEN "fallback"
    ELSE Rules[CHOOSE i \in Matching(q) : \A j \in Matching(q) : i <= j].name

AllPatterns == UNION {Rules[i].pats \cup Rules[i].also : i \in 1..Len(Rules)}

\* C7: first match wins: exactly one branch runs, that of the first rule in
\* source order whose condition holds; when no rule's pattern is contained in
\* the query, only the fallback response is spoken and nothing is called.
C7_FirstMatchWins ==
    nCmds > 0 =>
        /\ ran = {FirstRule(command)}
        /\ (\A p \in AllPatterns : ~Contains(p, command)) =>
              /\ ran = {"fallback"}
              /\ spoken = <<"fallback">>
              /\ touched = {}
              /\ heard = <<>>
              /\ outcome = "returned"

C7_Witness ==
    /\ nCmds > 0
    /\ Cardinality(Matching(command)) >= 2
    /\ ran = {FirstRule(command)}
    /\ touched # {}

\* C8: no earlier rule shadows a pattern: the query equal to a rule's pattern
\* runs that rule's handler.
C8_PatternReachesOwnHandler ==
    nCmds > 0 =>
        \A i \in 1..Len(Rules) :
            (command \in Rules[i].pats /\ Rules[i].also = {})
                => ran = {Rules[i].name}

P_search_on_google == <<"s", "e", "a", "r", "c", "h", " ", "o", "n", " ", "g", "o", "o", "g", "l", "e">>

\* C9: the query "search on google" runs the Google-search handler and no
\* other: it asks for the search term and, given one, calls search_on_google.
C9_SearchOnGoogle ==
    (nCmds > 0 /\ command = P_search_on_google) =>
        /\ ran = {"google"}
        /\ Len(spoken) >= 1 /\ spoken[1] = "prompt"
        /\ Len(heard) = 1
        /\ touched \subseteq {"search_on_google"}
        /\ "search_on_google" \in touched
              <=> (~heard[1].exit /\ heard[1].query # <<>>)

C9_Witness ==
    /\ nCmds > 0
    /\ command = P_search_on_google
    /\ touched = {"search_on_google"}
    /\ outcome = "returned"

----------------------------------------------------------------------------
(* Properties of the listening loop *)

\* C10: whatever is raised while handle_command runs, a follow-up
\* take_user_input's exit included, ends in the apology, and the listening
\* loop goes on: no command ends the listening thread.
C10_LoopSurvivesCommands ==
    /\ outcome # "SystemExit"
    /\ ~(exitFrom = "handle_command" /\ \E t \in Threads : pc[t] = "dead")

----------------------------------------------------------------------------
(* Properties of check_due_reminders *)

\* the reminders of the file that are stored un-notified with a time at or
\* before now, in file order
StoredDue(recs) == SelectSeq(recs, LAMBDA r : ~r.notified /\ r.time <= now)

\* C11: check_due_reminders returns exactly the reminders stored with
\* notified = false and time <= now (time = now included), in file order, and
\* sets notified = true on exactly those; every other reminder is neither
\* returned nor modified.
C11_CheckDueExact ==
    [][(op' = "check_due_reminders" /\ now' = now)
       => LET old == get_reminders.recs
              new == reminderFile'.recs
              due == StoredDue(old)
          IN
          /\ ~raised'
          /\ Len(ret'.val) = Len(due)
          /\ \A k \in 1..Len(due) :
                ret'.val[k] = [due[k] EXCEPT !.notified = TRUE]
          /\ Len(new) = Len(old)
          /\ \A i \in 1..Len(old) :
                new[i] = IF ~old[i].notified /\ old[i].time <= now
                         THEN [old[i] EXCEPT !.notified = TRUE]
                         ELSE old[i]]_vars

\* C12: check_due_reminders writes the reminder file only when some reminder
\* went from notified = false to notified = true in that call; when no reminder
\* is due the file is left as it was (a missing file stays missing).
C12_SaveOnlyWhenDue ==
    [][(op' = "check_due_reminders" /\ now' = now)
       => LET old == reminderFile.recs
              new == reminderFile'.recs
          IN
          /\ reminderFile' # reminderFile
                => \E i \in 1..Len(old) : ~old[i].notified /\ new[i].notified
          /\ (\A i \in 1..Len(old) : old[i].notified \/ old[i].time > now)
                => reminderFile' = reminderFile]_vars

C12_Witness ==
    /\ op = "check_due_reminders"
    /\ ~raised
    /\ ret.val = <<>>
    /\ Len(reminderFile.recs) = 2
    /\ reminderFile.recs[1].notified
    /\ ~reminderFile.recs[2].notified
    /\ reminderFile.recs[2].time > now

\* C13: the stored notified flag is monotone: a record is created with
\* notified = false, the flag becomes true only in a check_due_reminders call
\* in which the reminder is due, and a flag that is true never becomes false.
C13_NotifiedMonotone ==
    [][LET old == reminderFile.recs
           new == reminderFile'.recs
       IN
       /\ Len(new) >= Len(old)
       /\ \A i \in 1..Len(new) :
            IF i > Len(old) THEN op' = "add_reminder" /\ ~new[i].notified
            ELSE /\ old[i].notified => new[i].notified
                 /\ (~old[i].notified /\ new[i].notified)
                       => /\ op' = "check_due_reminders"
                          /\ old[i].time <= now]_vars

C13_Witness ==
    /\ op = "check_due_reminders"
    /\ Len(reminderFile.recs) = 3
    /\ reminderFile.recs[1].notified
    /\ reminderFile.recs[2].notified
    /\ ~reminderFile.recs[3].notified
    /\ timesReturned[1] = 1 /\ timesReturned[2] = 1
    /\ reminderFile.recs[2].time > reminderFile.recs[1].time

----------------------------------------------------------------------------
(* Properties of complete_todo on a stored id *)

\* C14: for a task_id that some stored todo has, complete_todo sets completed =
\* true and the completion time on the first record with that id, saves the
\* list, returns the "Marked task <id> as completed" message, and leaves every
\* other record and the id, task, priority and created of that record unchanged.
C14_CompleteStoredId ==
    [][(/\ op' = "complete_todo"
        /\ now' = now
        /\ arg'[1] \in IdsOf(get_todos.recs))
       => LET old == get_todos.recs
              new == todoFile'.recs
              i == CHOOSE k \in 1..Len(old) :
                      /\ old[k].id = arg'[1]
                      /\ \A j \in 1..Len(old) : old[j].id = arg'[1] => k <= j
          IN
          /\ ~raised'
          /\ ret' = [msg |-> "Marked task as completed", val |-> <<arg'[1]>>]
          /\ todoFile'.kind = "array"
          /\ Len(new) = Len(old)
          /\ new[i].completed
          /\ new[i].completed_date = now
          /\ new[i].id = old[i].id
          /\ new[i].task = old[i].task
          /\ new[i].priority = old[i].priority
          /\ new[i].created = old[i].created
          /\ \A j \in 1..Len(old) : j # i => new[j] = old[j]]_vars

C14_Witness ==
    /\ op = "complete_todo"
    /\ ret.msg = "Marked task as completed"
    /\ Len(todoFile.recs) >= 3
    /\ todoFile.recs[1].id = arg[1]
    /\ todoFile.recs[2].id = arg[1]
    /\ todoFile.recs[1].completed
    /\ todoFile.recs[1].completed_date = now
    /\ now > 0
    /\ ~todoFile.recs[2].completed

----------------------------------------------------------------------------
(* The stores only grow *)

IdSeq(recs) == [i \in 1..Len(recs) |-> recs[i].id]

IsPrefix(a, b) == Len(a) <= Len(b) /\ \A i \in 1..Len(a) : a[i] = b[i]

\* C15: each store is append-only: over every add_*, complete_todo and
\* check_due_reminders call, the sequence of record ids of a file before the
\* call is a prefix of the sequence after it; nothing stored is removed or
\* moved.
C15_AppendOnly ==
    [][/\ IsPrefix(IdSeq(todoFile.recs), IdSeq(todoFile'.recs))
       /\ IsPrefix(IdSeq(reminderFile.recs), IdSeq(reminderFile'.recs))
       /\ IsPrefix(IdSeq(noteFile.recs), IdSeq(noteFile'.recs))]_vars

C15_Witness ==
    /\ op = "check_due_reminders"
    /\ IdSeq(reminderFile.recs) = <<1, 2>>
    /\ reminderFile.recs[2].notified
    /\ IdSeq(todoFile.recs) = <<1, 2>>
    /\ todoFile.recs[2].completed
    /\ IdSeq(noteFile.recs) = <<1, 2>>

----------------------------------------------------------------------------
(* Saving and loading *)

----------------------------------------------------------------------------
(* Properties of the add task command *)

\* C17: every todo stored through the add task command has a priority among
\* high, medium and low: the answer to "What priority?" is stored when it is
\* exactly one of the three, and medium is stored in every other case (nothing
\* heard, another word, a longer phrase).
C17_StoredPriority ==
    /\ \A i \in 1..Len(todoFile.recs) :
          todoFile.recs[i].priority \in {P_high, P_medium, P_low}
    /\ (ran = {"add_task"} /\ "add_todo" \in touched) =>
          LET answer == heard[2].query
              stored == todoFile.recs[Len(todoFile.recs)]
          IN
          /\ op = "add_todo" /\ ~raised
          /\ stored.task = heard[1].query
          /\ stored.priority = IF answer \in {P_high, P_medium, P_low}
                               THEN answer ELSE P_medium

C17_Witness ==
    /\ ran = {"add_task"}
    /\ "add_todo" \in touched
    /\ heard[2].query = <<"l", "o", "w", " ", "p", "r", "i", "o", "r", "i", "t", "y">>
    /\ todoFile.recs[1].priority = P_medium

----------------------------------------------------------------------------
(* Properties of the threads *)

\* C18: no concurrent command processing: in GUI mode and in terminal mode,
\* whatever Start and Stop presses are made, at most one listening_loop thread
\* is ever started and at most one handle_command is executing.
C18_OneListeningThread ==
    /\ Cardinality({t \in Threads : pc[t] # "unborn"}) <= 1
    /\ Cardinality({t \in Threads : pc[t] = "handle"}) <= 1

C18_Witness ==
    /\ mode = "gui"
    /\ \E t \in Threads : pc[t] = "handle"
    /\ is_listening
    /\ startThreads = 1
    /\ listening_event

\* C19, as the code has it: the flag is read once per iteration, before the
\* capture. An iteration that reads it clear captures nothing, handles nothing
\* and checks no reminder; an iteration that read it set goes on to its
\* capture, its command and its reminder check whatever happens to the flag
\* meanwhile. So a capture starts only straight after a read that found the
\* flag set, and handling and the reminder check start only within an iteration
\* that made a capture.
C19_FlagReadPerIteration ==
    [][\A t \in Threads :
        /\ (pc[t] = "if" /\ pc'[t] # "if")
              => pc'[t] = (IF listening_event THEN "input" ELSE "sleep")
        /\ (pc'[t] = "input" /\ pc[t] # "input")
              => (pc[t] = "if" /\ listening_event)
        /\ (pc'[t] = "handle" /\ pc[t] # "handle") => pc[t] = "input"
        /\ (pc'[t] = "reminders" /\ pc[t] # "reminders")
              => pc[t] \in {"input", "handle"}]_vars

C19_Witness ==
    /\ mode = "gui"
    /\ ~listening_event /\ ~is_listening /\ startThreads = 0
    /\ pc[1] = "sleep"
    /\ op = "check_due_reminders"
    /\ nCmds = 1

\* C19, as stated: once stop_listening_callback has cleared listening_event, no
\* utterance capture, no command handling and no reminder check starts until
\* the flag is set again.
C19_NothingStartsWhileCleared ==
    [][~listening_event =>
        \A t \in Threads :
            pc[t] \in {"input", "handle", "reminders"} => pc'[t] = pc[t]]_vars

\* C20: after take_user_input has reached sys.exit() in a listening thread, the
\* whole process, main thread included, eventually ends.
C20_ExitEndsProcess ==
    (\E t \in Threads : pc[t] = "dead") ~> (mainPc = "ended")
----------------------------------------------------------------------------
(* Shutdown *)

\* C21: exit_handler performs a graceful shutdown: once it has run (is_running
\* is false) the application's main loop, the GUI mainloop or the terminal
\* keep-alive loop, eventually ends.
C21_ExitHandlerEndsMainLoop ==
    (~is_running) ~> (mainPc = "ended")
----------------------------------------------------------------------------
(* Multi-turn handlers with an answer that was not caught *)

\* the follow-up a handler cannot go on without came back empty: the task of
\* add task, the text of set reminder, the title or the content of take note
\* (the priority of add task has a default and is not required)
RequiredEmpty(kind, hd) ==
    \/ /\ kind \in {"add_task", "set_reminder"}
       /\ Len(hd) >= 1 /\ ~hd[1].exit /\ hd[1].query = <<>>
    \/ /\ kind = "take_note"
       /\ \E i \in 1..Len(hd) : ~hd[i].exit /\ hd[i].query = <<>>

\* C22: in add task, set reminder and take note, when a required follow-up
\* utterance comes back empty the handler speaks its "didn't catch" message
\* last and ends without calling add_todo, add_reminder or add_note: the
\* three store files are unchanged.
C22_EmptyFollowUpStoresNothing ==
    [][(/\ nCmds' = nCmds + 1
        /\ RequiredEmpty(Branches(command')[1].kind, heard'))
       => /\ spoken'[Len(spoken')] = "didnt_catch"
          /\ touched' \cap {"add_todo", "add_reminder", "add_note"} = {}
          /\ outcome' = "returned"
          /\ todoFile' = todoFile
          /\ reminderFile' = reminderFile
          /\ noteFile' = noteFile]_vars

C22_Witness ==
    /\ nCmds = 1
    /\ Branches(command)[1].kind = "take_note"
    /\ Len(heard) = 2
    /\ RequiredEmpty("take_note", heard)
    /\ spoken[Len(spoken)] = "didnt_catch"
    /\ noteFile = Missing
----------------------------------------------------------------------------
(* The GUI's flag and the interpreter's event *)

\* C23: in GUI mode, for every sequence of Start and Stop presses, when no
\* start_callback thread is still pending, listening_event is set if and only
\* if is_listening is true.
C23_FlagAgreesWithEvent ==
    (mode = "gui" /\ mainPc = "mainloop" /\ startThreads = 0)
        => (listening_event <=> is_listening)
----------------------------------------------------------------------------
(* Announcing the due reminders *)

\* the reminder id is stored un-notified with a time that has passed
DueStored(id) ==
    /\ reminderFile.kind = "array"
    /\ \E i \in 1..Len(reminderFile.recs) :
          LET r == reminderFile.recs[i] IN
          r.id = id /\ ~r.notified /\ r.time <= now

\* C24: while listening_loop keeps running with listening enabled, so that
\* check_reminders is reached and left again and again, every stored reminder whose due
\* time has passed is eventually spoken to the user and is spoken exactly once,
\* also when speech output fails or an earlier record makes the check raise.
C24_DueEventuallySpokenOnce ==
    (/\ []<>(\E t \in Threads : pc[t] = "reminders")
     /\ []<>(\E t \in Threads : pc[t] = "sleep"))
        => \A id \in 1..MaxReminders :
              /\ [](DueStored(id) => <>(announced[id] = 1))
              /\ [](announced[id] <= 1)
----------------------------------------------------------------------------
(* Properties of add_reminder *)

\* remind_time parses as an ISO timestamp or as "YYYY-MM-DD HH:MM"
Parses(s) == fromisoformat(s).ok \/ strptime(s).ok

\* C25: add_reminder with a remind_time that parses neither as an ISO
\* timestamp nor as "YYYY-MM-DD HH:MM" returns the invalid-date-format message,
\* raises no exception and leaves the reminder file unchanged; with a parseable
\* time it appends exactly one record, with notified = false.
C25_AddReminderParsesOrRefuses ==
    [][(op' = "add_reminder" /\ now' = now)
       => LET s == arg'[2]
              old == Load(reminderFile).recs
              new == reminderFile'.recs
          IN
          /\ ~raised'
          /\ ~Parses(s) => /\ ret'.msg = "Invalid date format"
                           /\ reminderFile' = reminderFile
          /\ Parses(s) => /\ ret'.msg = "Reminder set"
                          /\ reminderFile'.kind = "array"
                          /\ Len(new) = Len(old) + 1
                          /\ SubSeq(new, 1, Len(old)) = old
                          /\ new[Len(new)].text = arg'[1]
                          /\ new[Len(new)].notified = FALSE]_vars

C25_Witness ==
    /\ op = "add_reminder"
    /\ arg[2].form = "bad"
    /\ ret.msg = "Invalid date format"
    /\ ~raised
    /\ reminderFile.kind = "array" /\ Len(reminderFile.recs) = 1
----------------------------------------------------------------------------
(* The completed flag *)

\* C26: the completed flag of a stored todo is monotone: it is false at
\* creation, and once complete_todo has set it no add_todo, complete_todo or
\* list_todos call sets it back to false; completing a completed todo again
\* keeps completed = true and list_todos(show_completed=False) leaves it out.
C26_CompletedMonotone ==
    [][LET old == todoFile.recs
           new == todoFile'.recs
       IN
       /\ \A i \in 1..Len(old) :
             old[i].completed => (i <= Len(new) /\ new[i].id = old[i].id
                                  /\ new[i].completed)
       /\ (op' = "add_todo" /\ now' = now /\ ~raised')
             => (Len(new) = Len(old) + 1 /\ ~new[Len(new)].completed)
       /\ (op' = "complete_todo" /\ now' = now /\ ret'.msg = "Marked task as completed")
             => \E i \in 1..Len(new) : new[i].id = arg'[1] /\ new[i].completed
       /\ (op' = "list_todos" /\ now' = now /\ arg' = <<FALSE>> /\ ~raised')
             => \A k \in 1..Len(ret'.val), i \in 1..Len(new) :
                   new[i].completed => ret'.val[k].id # new[i].id]_vars

C26_Witness ==
    /\ op = "list_todos" /\ arg = <<FALSE>>
    /\ Len(todoFile.recs) = 2
    /\ todoFile.recs[1].completed /\ ~todoFile.recs[2].completed
    /\ todoFile.recs[1].completed_date > todoFile.recs[1].created
    /\ ret.msg = "listing" /\ Len(ret.val) = 1 /\ ret.val[1].id = 2
----------------------------------------------------------------------------
(* The music player by itself *)

Play ==
    \E track_name \in TrackNames, tracks \in MusicFolders, fails \in BOOLEAN :
        \E pick \in RandomChoices(tracks) :
            play(track_name, tracks, pick, fails) /\ UNCHANGED <<cmdVars, loopVars>>

Pause == pause /\ UNCHANGED <<cmdVars, loopVars>>

Resume == resume /\ UNCHANGED <<cmdVars, loopVars>>

Stop == stop /\ UNCHANGED <<cmdVars, loopVars>>

InitMusic ==
    /\ InitOps /\ InitCmd /\ InitLoop
    /\ todoFile = Missing
    /\ reminderFile = Missing
    /\ noteFile = Missing

NextMusic == Play \/ Pause \/ Resume \/ Stop

SpecMusic == InitMusic /\ [][NextMusic]_vars

\* C27: MusicPlayer keeps "playing implies current_track is set" under every
\* sequence of play, pause, resume and stop; pause on a player that is not
\* playing, resume with no paused track (also after stop) and stop with no
\* current track return their "no music" message and leave playing and
\* current_track unchanged; pause followed by resume is back at playing with
\* the same current_track.
C27_PlayingHasTrack ==
    /\ [](playing => current_track # NoTrack)
    /\ [][/\ (op' = "pause" /\ ~playing)
             => /\ ret'.msg = "No music is currently playing"
                /\ UNCHANGED <<playing, current_track>>
          /\ (op' = "resume" /\ (current_track = NoTrack \/ playing))
             => /\ ret'.msg = "No paused music to resume"
                /\ UNCHANGED <<playing, current_track>>
          /\ (op' = "stop" /\ current_track = NoTrack)
             => /\ ret'.msg = "No music is currently playing"
                /\ UNCHANGED <<playing, current_track>>
          /\ (op = "pause" /\ ret.msg = "Music paused" /\ op' = "resume")
             => /\ ret'.msg = "Music resumed"
                /\ playing'
                /\ current_track' = current_track
                /\ current_track' # NoTrack]_vars

C27_Witness ==
    /\ op = "resume" /\ ret.msg = "Music resumed"
    /\ playing
    /\ current_track = <<"A", "b", ".", "o", "g", "g">>
----------------------------------------------------------------------------
(* The number guessing game *)

Guesses == 0..(MaxNumber + 1)

PlayNumberGuessingGame ==
    \E number \in 1..MaxNumber :
        play_number_guessing_game(number) /\ UNCHANGED <<cmdVars, loopVars>>

CheckNumberGuess ==
    \E guess \in Guesses : check_number_guess(guess) /\ UNCHANGED <<cmdVars, loopVars>>

InitGame ==
    /\ InitOps /\ InitCmd /\ InitLoop
    /\ todoFile = Missing
    /\ reminderFile = Missing
    /\ noteFile = Missing

NextGame == PlayNumberGuessingGame \/ CheckNumberGuess

SpecGame == InitGame /\ [][NextGame]_vars

\* C28: for every number and every sequence of guesses, a guess equal to the
\* number made while the game is not over, on any of the attempts 1 to
\* max_attempts, ends the game with the congratulations message, and a wrong
\* guess ends it, with the out-of-attempts message, only when it is the
\* max_attempts-th guess.
C28_RightGuessWins ==
    [][(op' = "check_number_guess" /\ ~game_state.game_over)
       => LET guess == arg'[1] IN
          /\ guess = game_state.number
                => /\ game_state'.game_over
                   /\ game_state'.message.kind = "Congratulations"
          /\ guess # game_state.number
                => /\ game_state'.game_over
                      <=> game_state'.attempts = game_state'.max_attempts
                   /\ game_state'.game_over
                      => game_state'.message.kind
                            = "Sorry, you've used all your attempts"]_vars

\* C29: game_over is absorbing and attempts is bounded: in every reachable
\* state 0 <= attempts <= max_attempts, and once game_over is true
\* check_number_guess returns the state unchanged (attempts, message and
\* game_over) for every further guess.
C29_GameOverAbsorbing ==
    /\ [](/\ 0 <= game_state.attempts
          /\ game_state.attempts <= game_state.max_attempts)
    /\ [][(op' = "check_number_guess" /\ game_state.game_over)
          => game_state' = game_state]_vars

C29_Witness ==
    /\ op = "check_number_guess"
    /\ game_state.game_over
    /\ game_state.message.kind = "Congratulations"
    /\ game_state.attempts = 2
    /\ arg[1] # game_state.number

====
